---- MODULE Spec2Model ----
(***************************************************************************)
(* A model of the Rasad_v2 collector: the credential pool                  *)
(* (data_sources/twitter/account_manager.py), the fetch client that uses   *)
(* it (data_sources/twitter/scraper.py), the ingestion store               *)
(* (pipeline/storage/tweet_store.py) and the polling scheduler             *)
(* (monitoring/scheduler.py).                                              *)
(*                                                                         *)
(* Time is counted in whole minutes.  A score of the pool is kept ten      *)
(* times as large as in the source (7*idle + 3*remaining instead of        *)
(* 0.7*idle + 0.3*remaining) so that it stays an integer; the order of two *)
(* scores is the order of the exact values.                                *)
(***************************************************************************)
EXTENDS Integers, Sequences, FiniteSets, TLC

VARIABLES
    accounts,       \* AccountManager.accounts: the list of account dicts
    accounts_file,  \* the JSON file behind AccountManager.accounts_file
    rate_limits,    \* AccountManager.rate_limits: username -> remaining/reset_time
    now,            \* the wall clock read by datetime.now(), in minutes
    ret,            \* what the last pool operation returned
    api_pool,       \* twscrape's own account pool: username -> status
    initialized,    \* TwitterScraper.initialized
    init_pc,        \* position of the running TwitterScraper.initialize()
    wpc,            \* position of each worker's search_tweets / get_user_tweets
    wacct,          \* the account each worker got from get_healthy_account
    db,             \* the committed content of the database tables
    spc,            \* position of each store worker's save_tweet
    sreq,           \* the tweet_data of each store worker's save_tweet
    sbase,          \* the committed content each running transaction has read
    sret,           \* how each store worker's last save_tweet returned, and what
    batch,          \* the tweets_data of the running or last save_tweets call
    bpos,           \* how many of its records the loop of save_tweets has done
    saved_ids,      \* save_tweets' list saved_ids
    bres,           \* how the save_tweet call of each done record returned
    sched_config,   \* config.yaml: the scraping intervals and the keyword list
    normal_intervals,       \* DynamicScheduler.normal_intervals
    critical_intervals,     \* DynamicScheduler.critical_intervals
    current_status,         \* DynamicScheduler.current_status
    monitoring_schedules,   \* the committed rows of table monitoring_schedules
    sched_ret,      \* the last DynamicScheduler call: its arguments, what it
                    \* returned and what it logged as a warning or an error
    qret,           \* the last read of the store: its arguments and its result
    run_pc,         \* position of main's collection cycle
    run_idx,        \* position of collect_for_all_keywords in self.keywords
    run_results,    \* collect_for_all_keywords' dict results
    run_acct,       \* the account search_tweets got from get_healthy_account
    run_ret         \* what the last step of the cycle did

poolVars == <<accounts, accounts_file, rate_limits, now, ret>>
scraperVars == <<api_pool, initialized, init_pc, wpc, wacct>>
storeVars == <<db, spc, sreq, sbase, sret>>
batchVars == <<batch, bpos, saved_ids, bres>>
schedVars == <<sched_config, normal_intervals, critical_intervals,
               current_status, monitoring_schedules, sched_ret>>
queryVars == <<qret>>
runVars == <<run_pc, run_idx, run_results, run_acct, run_ret>>
vars == <<accounts, accounts_file, rate_limits, now, ret,
          api_pool, initialized, init_pc, wpc, wacct,
          db, spc, sreq, sbase, sret,
          batch, bpos, saved_ids, bres,
          sched_config, normal_intervals, critical_intervals,
          current_status, monitoring_schedules, sched_ret,
          qret, run_pc, run_idx, run_results, run_acct, run_ret>>

\* ------------------------------------------------------------------------
\* Bounds and input sets
\* ------------------------------------------------------------------------
MaxTime == 3

Usernames == {"acc1", "acc2"}
UnknownUser == "nobody"
Workers == {"w1", "w2"}

\* the remaining-quota values handed to update_rate_limit by a caller
RemainingInputs == {0, 7}
\* how far ahead of now a caller sets reset_time
ResetAhead == {1, 2}

\* ------------------------------------------------------------------------
\* Values
\* ------------------------------------------------------------------------
\* Python's None for last_used is the empty tuple, an ISO string is <<t>>.
None == <<>>

\* datetime.isoformat() and datetime.fromisoformat(): the text of a time.
isoformat(t) == <<t>>
fromisoformat(s) == s[1]

Account(u, a, lu) == [username |-> u, active |-> a, last_used |-> lu]

\* json.dump / json.load of the accounts list: true/false/null are JSON text.
json_bool(b) == IF b THEN "true" ELSE "false"
\* as json_dump, writing null for every last_used
json_dump_no_last_used(accts) ==
    [kind |-> "json",
     data |-> [i \in 1..Len(accts) |->
                 [username |-> accts[i].username,
                  active |-> json_bool(accts[i].active),
                  last_used |-> <<"null">>]]]

json_dump(accts) ==
    [kind |-> "json",
     data |-> [i \in 1..Len(accts) |->
                 [username |-> accts[i].username,
                  active |-> json_bool(accts[i].active),
                  last_used |-> IF accts[i].last_used = None
                                THEN <<"null">>
                                ELSE <<"str", accts[i].last_used>>]]]
json_load(file) ==
    [i \in 1..Len(file.data) |->
        Account(file.data[i].username,
                file.data[i].active = "true",
                IF file.data[i].last_used[1] = "null"
                THEN None ELSE file.data[i].last_used[2])]

MissingFile == [kind |-> "missing", data |-> <<>>]
CorruptFile == [kind |-> "corrupt", data |-> <<>>]

sample_accounts ==
    <<Account("sample_account1", FALSE, None),
      Account("sample_account2", FALSE, None)>>

\* AccountManager._load_accounts: the list the constructor ends up with.
load_accounts(file) ==
    IF file.kind = "missing" THEN sample_accounts
    ELSE IF file.kind = "corrupt" THEN <<>>
    ELSE json_load(file)

\* The file after the constructor ran (_create_sample_accounts_file writes it).
file_after_load(file) ==
    IF file.kind = "missing" THEN json_dump(sample_accounts) ELSE file

\* AccountManager._save_accounts
save_accounts(accts) == json_dump(accts)

\* ------------------------------------------------------------------------
\* get_healthy_account
\* ------------------------------------------------------------------------
NeverUsedIdle == 1000
DefaultRemaining == 100

\* as IsRateLimited, but an account still counts as limited at its reset time
IsRateLimitedAtReset(rl, u, t) ==
    /\ u \in DOMAIN rl
    /\ t <= rl[u].reset_time
    /\ rl[u].remaining <= 0

\* as IsRateLimited, without the test of the reset time: a recorded exhaustion
\* lasts until another quota is recorded
IsRateLimitedUntilRecorded(rl, u, t) ==
    /\ u \in DOMAIN rl
    /\ rl[u].remaining <= 0

\* line 106: the account hit its limit and the limit has not reset yet
IsRateLimited(rl, u, t) ==
    /\ u \in DOMAIN rl
    /\ t < rl[u].reset_time
    /\ rl[u].remaining <= 0

\* lines 111-122, times ten
Score(acct, rl, t) ==
    LET idle == IF acct.last_used # None
                THEN t - fromisoformat(acct.last_used)
                ELSE NeverUsedIdle
        remaining == IF acct.username \in DOMAIN rl
                     THEN rl[acct.username].remaining
                     ELSE DefaultRemaining
    IN  idle * 7 + remaining * 3

\* as AvailableIdx, without the rate-limit test of lines 103-108
AvailableIdxIgnoringLimits(accts, rl, t) ==
    {i \in 1..Len(accts) : accts[i].active}

\* lines 89-124: the positions in accounts of the candidates
AvailableIdx(accts, rl, t) ==
    {i \in 1..Len(accts) :
        accts[i].active /\ ~IsRateLimited(rl, accts[i].username, t)}

\* as SelectAccount, with a sort that puts the last of equal scores first
SelectAccountLastOfTies(accts, rl, t) ==
    LET avail == AvailableIdx(accts, rl, t)
        best == {i \in avail :
                    \A j \in avail : Score(accts[j], rl, t) <= Score(accts[i], rl, t)}
    IN  IF avail = {} THEN 0
        ELSE CHOOSE i \in best : \A j \in best : j <= i

\* lines 131-134: a stable descending sort, then the head of the list
SelectAccount(accts, rl, t) ==
    LET avail == AvailableIdx(accts, rl, t)
        best == {i \in avail :
                    \A j \in avail : Score(accts[j], rl, t) <= Score(accts[i], rl, t)}
    IN  IF avail = {} THEN 0
        ELSE CHOOSE i \in best : \A j \in best : i <= j

\* as Stamp, but every active account gets the time
StampEveryActive(accts, i, t) ==
    [j \in 1..Len(accts) |->
        IF accts[j].active THEN [accts[j] EXCEPT !.last_used = isoformat(t)]
        ELSE accts[j]]

\* line 137
Stamp(accts, i, t) == [accts EXCEPT ![i].last_used = isoformat(t)]

\* ret: the position in accounts of the account get_healthy_account returned,
\* 0 when it returned None; Restarted right after a restart, NoReturn after any
\* other operation
NoReturn == 0 - 1
Restarted == 0 - 2

\* as get_healthy_account, without the _save_accounts call of line 138
get_healthy_account_unsaved ==
    LET i == SelectAccount(accounts, rate_limits, now)
    IN  /\ IF i = 0
           THEN UNCHANGED accounts
           ELSE accounts' = Stamp(accounts, i, now)
        /\ ret' = i
        /\ UNCHANGED <<accounts_file, rate_limits, now>>
        /\ UNCHANGED scraperVars
        /\ UNCHANGED storeVars
        /\ UNCHANGED batchVars
        /\ UNCHANGED schedVars
        /\ UNCHANGED queryVars
        /\ UNCHANGED runVars

get_healthy_account ==
    LET i == SelectAccount(accounts, rate_limits, now)
    IN  /\ IF i = 0
           THEN UNCHANGED <<accounts, accounts_file>>
           ELSE /\ accounts' = Stamp(accounts, i, now)
                /\ accounts_file' = save_accounts(accounts')
        /\ ret' = i
        /\ UNCHANGED <<rate_limits, now>>
        /\ UNCHANGED scraperVars
        /\ UNCHANGED storeVars
        /\ UNCHANGED batchVars
        /\ UNCHANGED schedVars
        /\ UNCHANGED queryVars
        /\ UNCHANGED runVars

\* ------------------------------------------------------------------------
\* The other pool operations
\* ------------------------------------------------------------------------
RateLimitSet(rl, u, remaining, reset_time) ==
    [x \in DOMAIN rl \cup {u} |->
        IF x = u THEN [remaining |-> remaining, reset_time |-> reset_time]
        ELSE rl[x]]

update_rate_limit(u, remaining, reset_time) ==
    /\ rate_limits' = RateLimitSet(rate_limits, u, remaining, reset_time)
    /\ ret' = NoReturn
    /\ UNCHANGED <<accounts, accounts_file, now>>
    /\ UNCHANGED scraperVars
    /\ UNCHANGED storeVars
    /\ UNCHANGED batchVars
    /\ UNCHANGED schedVars
    /\ UNCHANGED queryVars
    /\ UNCHANGED runVars

\* the first position holding the username, 0 when there is none
FindAccount(accts, u) ==
    IF \E i \in 1..Len(accts) : accts[i].username = u
    THEN CHOOSE i \in 1..Len(accts) :
            /\ accts[i].username = u
            /\ \A j \in 1..Len(accts) : accts[j].username = u => i <= j
    ELSE 0

SetStatus(accts, u, active) ==
    LET i == FindAccount(accts, u)
    IN  IF i = 0 THEN accts ELSE [accts EXCEPT ![i].active = active]

set_account_status(u, active) ==
    LET i == FindAccount(accounts, u)
    IN  /\ accounts' = SetStatus(accounts, u, active)
        /\ accounts_file' = IF i = 0 THEN accounts_file ELSE save_accounts(accounts')
        /\ ret' = NoReturn
        /\ UNCHANGED <<rate_limits, now>>
        /\ UNCHANGED scraperVars
        /\ UNCHANGED storeVars
        /\ UNCHANGED batchVars
        /\ UNCHANGED schedVars
        /\ UNCHANGED queryVars
        /\ UNCHANGED runVars

\* as add_account, without the check of lines 183-186: the account is appended
\* whether or not the username is taken
add_account_unchecked(u) ==
    /\ accounts' = Append(accounts, Account(u, TRUE, None))
    /\ accounts_file' = save_accounts(accounts')
    /\ ret' = NoReturn
    /\ UNCHANGED <<rate_limits, now>>
    /\ UNCHANGED scraperVars
    /\ UNCHANGED storeVars
    /\ UNCHANGED batchVars
    /\ UNCHANGED schedVars
    /\ UNCHANGED queryVars
    /\ UNCHANGED runVars

add_account(u) ==
    LET i == FindAccount(accounts, u)
    IN  /\ accounts' = IF i # 0 THEN accounts
                       ELSE Append(accounts, Account(u, TRUE, None))
        /\ accounts_file' = IF i # 0 THEN accounts_file ELSE save_accounts(accounts')
        /\ ret' = NoReturn
        /\ UNCHANGED <<rate_limits, now>>
        /\ UNCHANGED scraperVars
        /\ UNCHANGED storeVars
        /\ UNCHANGED batchVars
        /\ UNCHANGED schedVars
        /\ UNCHANGED queryVars
        /\ UNCHANGED runVars

\* A process restart: AccountManager.__init__ runs again on the same file.
Restart ==
    /\ accounts' = load_accounts(accounts_file)
    /\ accounts_file' = file_after_load(accounts_file)
    /\ rate_limits' = <<>>
    /\ ret' = Restarted
    /\ UNCHANGED now
    /\ UNCHANGED scraperVars
    /\ UNCHANGED storeVars
    /\ UNCHANGED batchVars
    /\ UNCHANGED schedVars
    /\ UNCHANGED queryVars
    /\ UNCHANGED runVars

Tick ==
    /\ now < MaxTime
    /\ now' = now + 1
    /\ ret' = NoReturn
    /\ UNCHANGED <<accounts, accounts_file, rate_limits>>
    /\ UNCHANGED scraperVars
    /\ UNCHANGED storeVars
    /\ UNCHANGED batchVars
    /\ UNCHANGED schedVars
    /\ UNCHANGED queryVars
    /\ UNCHANGED runVars

\* config.yaml without a scraping section and without keywords: Config.get
\* returns the defaults its callers pass
NoConfig == [scraping |-> <<>>, keywords |-> <<>>]

\* no DynamicScheduler method has been called
NoSchedCall ==
    [op |-> "none", keyword |-> "", is_critical |-> FALSE, value |-> 0, logged |-> {}]

\* no read of the store has been made
NoQuery == [op |-> "none", args |-> <<>>, kind |-> "none", value |-> <<>>]

\* the collection cycle has not taken a step
NoRunStep ==
    [op |-> "none", keyword |-> "", account |-> 0, fetched |-> 0, saved |-> 0,
     time |-> 0]

\* ------------------------------------------------------------------------
\* The ingestion store: TweetStore over the database of models/tweet.py
\* ------------------------------------------------------------------------
\* A table is the sequence of its rows in insertion order; the primary key of a
\* row is its position.  Rows of the join tables name the tweet, hashtag and
\* keyword they point at by that row's unique text instead of by its position.
\* Rows are never deleted.  A transaction reads the committed content, and what
\* it writes is seen by the others when it commits.
EmptyDb ==
    [tweets |-> <<>>, users |-> <<>>, hashtags |-> <<>>, tweet_hashtags |-> <<>>,
     mentions |-> <<>>, media_items |-> <<>>, keywords |-> <<>>,
     tweet_keywords |-> <<>>]

Tables == DOMAIN EmptyDb

\* config.get_tracked_accounts(), keyed by username as _get_tracked_accounts does
tracked_accounts == [alice |-> [importance |-> 8]]

\* tag_text.lower().strip("#") and username.lower().strip("@")
lower_strip(raw) ==
    CASE raw \in {"#News", "NEWS", "news"} -> "news"
      [] raw \in {"@Bob", "bob"} -> "bob"
      [] raw \in {"Carol", "carol"} -> "carol"
      [] OTHER -> raw

\* f"mention_{username}"
mention_id(username) ==
    CASE username = "bob" -> "mention_bob"
      [] username = "carol" -> "mention_carol"
      [] OTHER -> "mention_"

\* The tweet_data dicts handed to save_tweet.
RawTweet(tid, uid, uname, fname, created, tags, ments, media, kws) ==
    [tweet_id |-> tid, user_id |-> uid, username |-> uname, full_name |-> fname,
     created_at |-> created, hashtags |-> tags, mentions |-> ments,
     media |-> media, keywords |-> kws]

NoRecord == RawTweet("", "", "", "", 0, <<>>, <<>>, <<>>, <<>>)

Records ==
    {RawTweet("t1", "u1", "alice", "Alice", 1, <<"#News">>, <<"@Bob">>, <<"photo">>, <<"kw1">>),
     RawTweet("t1", "u1", "alice", "Alice", 1, <<"#News">>, <<"@Bob">>, <<"photo">>, <<"kw2">>),
     RawTweet("t2", "u1", "alice_new", "Alice N.", 2, <<"news", "NEWS">>, <<"Carol">>, <<>>, <<"kw1", "news">>),
     RawTweet("t3", "u2", "bob", "Bob", 3, <<"NEWS">>, <<"carol", "Carol">>, <<"photo", "video">>, <<>>)}

\* the position of the first row of a table whose column col is v, 0 if none:
\* session.query(...).filter_by(col=v).first()
First(rows, col, v) ==
    IF \E i \in 1..Len(rows) : rows[i][col] = v
    THEN CHOOSE i \in 1..Len(rows) :
            /\ rows[i][col] = v
            /\ \A j \in 1..Len(rows) : rows[j][col] = v => i <= j
    ELSE 0

\* as save_or_update_user, but a stored user keeps the handle and the display
\* name it was stored with
save_or_update_user_keeps_handle(d, user_data) ==
    LET i == First(d.users, "user_id", user_data.user_id)
        tracked == user_data.username \in DOMAIN tracked_accounts
    IN  IF i # 0
        THEN IF d.users[i].username \in DOMAIN tracked_accounts
             THEN [d EXCEPT !.users[i].is_tracked = TRUE,
                            !.users[i].importance =
                                tracked_accounts[d.users[i].username].importance]
             ELSE d
        ELSE [d EXCEPT !.users =
                Append(@, [user_id |-> user_data.user_id,
                           username |-> user_data.username,
                           display_name |-> user_data.full_name,
                           is_tracked |-> tracked,
                           importance |->
                                IF tracked
                                THEN tracked_accounts[user_data.username].importance
                                ELSE 0])]

\* as save_or_update_user, but only a new user is looked up in the tracked
\* accounts
save_or_update_user_tracks_new_only(d, user_data) ==
    LET i == First(d.users, "user_id", user_data.user_id)
        tracked == user_data.username \in DOMAIN tracked_accounts
    IN  IF i # 0
        THEN [d EXCEPT !.users[i].username = user_data.username,
                       !.users[i].display_name = user_data.full_name]
        ELSE [d EXCEPT !.users =
                Append(@, [user_id |-> user_data.user_id,
                           username |-> user_data.username,
                           display_name |-> user_data.full_name,
                           is_tracked |-> tracked,
                           importance |->
                                IF tracked
                                THEN tracked_accounts[user_data.username].importance
                                ELSE 0])]

\* _save_or_update_user, lines 124-178
save_or_update_user(d, user_data) ==
    LET i == First(d.users, "user_id", user_data.user_id)
        users1 ==
            IF i # 0
            THEN [d.users EXCEPT ![i].username = user_data.username,
                                 ![i].display_name = user_data.full_name]
            ELSE Append(d.users,
                        [user_id |-> user_data.user_id,
                         username |-> user_data.username,
                         display_name |-> user_data.full_name,
                         is_tracked |-> FALSE, importance |-> 0])
        k == IF i # 0 THEN i ELSE Len(users1)
        users2 ==
            IF users1[k].username \in DOMAIN tracked_accounts
            THEN [users1 EXCEPT ![k].is_tracked = TRUE,
                                ![k].importance =
                                    tracked_accounts[users1[k].username].importance]
            ELSE users1
    IN  [d EXCEPT !.users = users2]

\* save_tweet, lines 50-70
add_tweet(d, tweet_data) ==
    [d EXCEPT !.tweets = Append(@, [tweet_id |-> tweet_data.tweet_id,
                                    user_id |-> tweet_data.user_id,
                                    created_at |-> tweet_data.created_at])]

\* _save_hashtags, lines 190-217
RECURSIVE save_hashtags(_, _, _)
save_hashtags(d, tweet_id, hashtags) ==
    IF hashtags = <<>> THEN d
    ELSE LET tag_text == lower_strip(Head(hashtags))
             i == First(d.hashtags, "text", tag_text)
             tags1 == IF i # 0
                      THEN [d.hashtags EXCEPT ![i].usage_count = @ + 1]
                      ELSE Append(d.hashtags, [text |-> tag_text, usage_count |-> 1])
             d1 == [d EXCEPT !.hashtags = tags1,
                             !.tweet_hashtags =
                                Append(@, [tweet_id |-> tweet_id, hashtag |-> tag_text])]
         IN  save_hashtags(d1, tweet_id, Tail(hashtags))

\* as save_mentions, but without the lookup of line 233: every mention makes a
\* new user
RECURSIVE save_mentions_without_lookup(_, _, _)
save_mentions_without_lookup(d, tweet_id, mentions) ==
    IF mentions = <<>> THEN d
    ELSE LET username == lower_strip(Head(mentions))
             users1 == Append(d.users,
                              [user_id |-> mention_id(username),
                               username |-> username,
                               display_name |-> username,
                               is_tracked |-> FALSE, importance |-> 0])
             d1 == [d EXCEPT !.users = users1,
                             !.mentions =
                                Append(@, [tweet_id |-> tweet_id,
                                           mentioned_user_id |-> mention_id(username)])]
         IN  save_mentions_without_lookup(d1, tweet_id, Tail(mentions))

\* _save_mentions, lines 228-251
RECURSIVE save_mentions(_, _, _)
save_mentions(d, tweet_id, mentions) ==
    IF mentions = <<>> THEN d
    ELSE LET username == lower_strip(Head(mentions))
             i == First(d.users, "username", username)
             users1 == IF i # 0 THEN d.users
                       ELSE Append(d.users,
                                   [user_id |-> mention_id(username),
                                    username |-> username,
                                    display_name |-> username,
                                    is_tracked |-> FALSE, importance |-> 0])
             k == IF i # 0 THEN i ELSE Len(users1)
             d1 == [d EXCEPT !.users = users1,
                             !.mentions =
                                Append(@, [tweet_id |-> tweet_id,
                                           mentioned_user_id |-> users1[k].user_id])]
         IN  save_mentions(d1, tweet_id, Tail(mentions))

\* _save_media, lines 261-268
RECURSIVE save_media(_, _, _)
save_media(d, tweet_id, media_items) ==
    IF media_items = <<>> THEN d
    ELSE save_media([d EXCEPT !.media_items =
                                Append(@, [tweet_id |-> tweet_id,
                                           media_type |-> Head(media_items)])],
                    tweet_id, Tail(media_items))

\* _save_tweet_keywords, lines 280-303
RECURSIVE save_tweet_keywords(_, _, _)
save_tweet_keywords(d, tweet_id, keywords) ==
    IF keywords = <<>> THEN d
    ELSE LET keyword_text == Head(keywords)
             i == First(d.keywords, "text", keyword_text)
             kws1 == IF i # 0 THEN [d.keywords EXCEPT ![i].last_used = now]
                     ELSE Append(d.keywords, [text |-> keyword_text,
                                              last_used |-> now])
             d1 == [d EXCEPT !.keywords = kws1,
                             !.tweet_keywords =
                                Append(@, [tweet_id |-> tweet_id,
                                           keyword |-> keyword_text])]
         IN  save_tweet_keywords(d1, tweet_id, Tail(keywords))

\* The statements of save_tweet after the lookup, lines 42-89, in order.
SaveSteps == <<"user", "tweet", "hashtags", "mentions", "media", "keywords", "commit">>

\* what the session holds once the first n of them ran on the content d
RECURSIVE Flushed(_, _, _)
Flushed(d, tweet_data, n) ==
    IF n = 0 THEN d
    ELSE LET p == Flushed(d, tweet_data, n - 1)
             tid == tweet_data.tweet_id
         IN  CASE SaveSteps[n] = "user" -> save_or_update_user(p, tweet_data)
               [] SaveSteps[n] = "tweet" -> add_tweet(p, tweet_data)
               [] SaveSteps[n] = "hashtags" -> save_hashtags(p, tid, tweet_data.hashtags)
               [] SaveSteps[n] = "mentions" -> save_mentions(p, tid, tweet_data.mentions)
               [] SaveSteps[n] = "media" -> save_media(p, tid, tweet_data.media)
               [] SaveSteps[n] = "keywords" -> save_tweet_keywords(p, tid, tweet_data.keywords)
               [] OTHER -> p

\* The rows a transaction that read base and holds view appended to a table.
Appended(base, view, t) == SubSeq(view[t], Len(base[t]) + 1, Len(view[t]))

\* The unique constraints of models/tweet.py: tweets.tweet_id, users.user_id,
\* hashtags.text and keywords.text.  An INSERT of a row whose key the committed
\* content cur already holds raises IntegrityError.
UniqueViolation(cur, base, view) ==
    \/ \E i \in 1..Len(Appended(base, view, "tweets")) :
            First(cur.tweets, "tweet_id", Appended(base, view, "tweets")[i].tweet_id) # 0
    \/ \E i \in 1..Len(Appended(base, view, "users")) :
            First(cur.users, "user_id", Appended(base, view, "users")[i].user_id) # 0
    \/ \E i \in 1..Len(Appended(base, view, "hashtags")) :
            First(cur.hashtags, "text", Appended(base, view, "hashtags")[i].text) # 0
    \/ \E i \in 1..Len(Appended(base, view, "keywords")) :
            First(cur.keywords, "text", Appended(base, view, "keywords")[i].text) # 0

\* session.commit(): the INSERTs append to the committed tables, the UPDATEs set
\* the columns the transaction changed in the rows it read.
Committed(cur, base, view) ==
    [t \in Tables |->
        [i \in 1..Len(cur[t]) |->
            IF i <= Len(base[t]) /\ view[t][i] # base[t][i]
            THEN [c \in DOMAIN cur[t][i] |->
                    IF view[t][i][c] # base[t][i][c] THEN view[t][i][c]
                    ELSE cur[t][i][c]]
            ELSE cur[t][i]]
        \o Appended(base, view, t)]

\* as rollback, but what the session had flushed stays in the tables
rollback_keeps_flushed(cur, base, view) == Committed(cur, base, view)

\* session.rollback(), line 94: nothing the session flushed stays
rollback(cur, base, view) == cur

\* How a save_tweet call returned.
\* how: the return statement taken ("existing" line 39, "saved" line 91, and for
\* line 96 "integrity_error" or "error" by the exception caught); id: the value
\* returned, 0 for None; step: the position in SaveSteps of the statement that
\* raised.
NotCalled == [how |-> "none", id |-> 0, step |-> 0]
Returned(how, id, step) == [how |-> how, id |-> id, step |-> step]

\* as ExistingTweet, but the lookup never finds the row
ExistingTweetMissed(d, tweet_data) == 0

\* save_tweet, lines 31-39: the lookup of the tweet by its tweet_id
ExistingTweet(d, tweet_data) == First(d.tweets, "tweet_id", tweet_data.tweet_id)

\* as SaveTweetLookup, but a stored tweet gets the keywords of the record: the
\* call runs _save_tweet_keywords on the row it found and commits
SaveTweetLookupAddsKeywords(w, tweet_data) ==
    /\ spc[w] = "idle"
    /\ sreq' = [sreq EXCEPT ![w] = tweet_data]
    /\ LET existing_tweet == ExistingTweet(db, tweet_data)
       IN  IF existing_tweet # 0
           THEN /\ sret' = [sret EXCEPT ![w] = Returned("existing", existing_tweet, 0)]
                /\ db' = save_tweet_keywords(db, tweet_data.tweet_id,
                                             tweet_data.keywords)
                /\ UNCHANGED <<spc, sbase>>
           ELSE /\ spc' = [spc EXCEPT ![w] = "write"]
                /\ sbase' = [sbase EXCEPT ![w] = EmptyDb]
                /\ sret' = [sret EXCEPT ![w] = NotCalled]
                /\ UNCHANGED db
    /\ UNCHANGED poolVars
    /\ UNCHANGED scraperVars
    /\ UNCHANGED batchVars
    /\ UNCHANGED schedVars
    /\ UNCHANGED queryVars
    /\ UNCHANGED runVars

SaveTweetLookup(w, tweet_data) ==
    /\ spc[w] = "idle"
    /\ sreq' = [sreq EXCEPT ![w] = tweet_data]
    /\ LET existing_tweet == ExistingTweet(db, tweet_data)
       IN  IF existing_tweet # 0
           THEN /\ sret' = [sret EXCEPT ![w] = Returned("existing", existing_tweet, 0)]
                /\ UNCHANGED <<spc, sbase>>
           ELSE /\ spc' = [spc EXCEPT ![w] = "write"]
                /\ sbase' = [sbase EXCEPT ![w] = EmptyDb]
                /\ sret' = [sret EXCEPT ![w] = NotCalled]
    /\ UNCHANGED db
    /\ UNCHANGED poolVars
    /\ UNCHANGED scraperVars
    /\ UNCHANGED batchVars
    /\ UNCHANGED schedVars
    /\ UNCHANGED queryVars
    /\ UNCHANGED runVars

\* save_tweet, lines 42-86: the session reads the committed content and flushes
\* its INSERTs and UPDATEs.  The INSERT of the tweet raises IntegrityError when a
\* row with the tweet_id was committed since the lookup.
SaveTweetWrite(w) ==
    /\ spc[w] = "write"
    /\ IF ExistingTweet(db, sreq[w]) # 0
       THEN /\ db' = rollback(db, db, Flushed(db, sreq[w], 1))
            /\ sret' = [sret EXCEPT ![w] = Returned("integrity_error", 0, 2)]
            /\ spc' = [spc EXCEPT ![w] = "idle"]
            /\ UNCHANGED sbase
       ELSE /\ sbase' = [sbase EXCEPT ![w] = db]
            /\ spc' = [spc EXCEPT ![w] = "commit"]
            /\ UNCHANGED <<db, sret>>
    /\ UNCHANGED sreq
    /\ UNCHANGED poolVars
    /\ UNCHANGED scraperVars
    /\ UNCHANGED batchVars
    /\ UNCHANGED schedVars
    /\ UNCHANGED queryVars
    /\ UNCHANGED runVars

\* save_tweet, lines 93-96: the statement SaveSteps[n] raises; the n - 1 before
\* it have been flushed.
SaveTweetRaises(w, n) ==
    /\ IF n < Len(SaveSteps) THEN spc[w] = "write" ELSE spc[w] = "commit"
    /\ LET base == IF spc[w] = "write" THEN db ELSE sbase[w]
       IN  db' = rollback(db, base, Flushed(base, sreq[w], n - 1))
    /\ sret' = [sret EXCEPT ![w] = Returned("error", 0, n)]
    /\ spc' = [spc EXCEPT ![w] = "idle"]
    /\ sbase' = [sbase EXCEPT ![w] = EmptyDb]
    /\ UNCHANGED sreq
    /\ UNCHANGED poolVars
    /\ UNCHANGED scraperVars
    /\ UNCHANGED batchVars
    /\ UNCHANGED schedVars
    /\ UNCHANGED queryVars
    /\ UNCHANGED runVars

\* save_tweet, lines 89-91: the commit, and the IntegrityError of a unique
\* constraint when another transaction committed the same key first.
SaveTweetCommit(w) ==
    /\ spc[w] = "commit"
    /\ LET view == Flushed(sbase[w], sreq[w], Len(SaveSteps) - 1)
       IN  IF UniqueViolation(db, sbase[w], view)
           THEN /\ db' = rollback(db, sbase[w], view)
                /\ sret' = [sret EXCEPT ![w] =
                                Returned("integrity_error", 0, Len(SaveSteps))]
           ELSE /\ db' = Committed(db, sbase[w], view)
                /\ sret' = [sret EXCEPT ![w] =
                                Returned("saved", ExistingTweet(db', sreq[w]), 0)]
    /\ spc' = [spc EXCEPT ![w] = "idle"]
    /\ sbase' = [sbase EXCEPT ![w] = EmptyDb]
    /\ UNCHANGED sreq
    /\ UNCHANGED poolVars
    /\ UNCHANGED scraperVars
    /\ UNCHANGED batchVars
    /\ UNCHANGED schedVars
    /\ UNCHANGED queryVars
    /\ UNCHANGED runVars

StoreNext ==
    \/ \E w \in Workers, r \in Records : SaveTweetLookup(w, r)
    \/ \E w \in Workers : SaveTweetWrite(w)
    \/ \E w \in Workers, n \in 1..Len(SaveSteps) : SaveTweetRaises(w, n)
    \/ \E w \in Workers : SaveTweetCommit(w)

StoreInit ==
    /\ accounts = <<>>
    /\ accounts_file = json_dump(<<>>)
    /\ rate_limits = <<>>
    /\ now = 0
    /\ ret = NoReturn
    /\ api_pool = <<>>
    /\ initialized = FALSE
    /\ init_pc = 0
    /\ wpc = [w \in Workers |-> "idle"]
    /\ wacct = [w \in Workers |-> 0]
    /\ db = EmptyDb
    /\ spc = [w \in Workers |-> "idle"]
    /\ sreq = [w \in Workers |-> NoRecord]
    /\ sbase = [w \in Workers |-> EmptyDb]
    /\ sret = [w \in Workers |-> NotCalled]
    /\ batch = <<>>
    /\ bpos = 0
    /\ saved_ids = <<>>
    /\ bres = <<>>
    /\ sched_config = NoConfig
    /\ normal_intervals = <<>>
    /\ critical_intervals = <<>>
    /\ current_status = <<>>
    /\ monitoring_schedules = <<>>
    /\ sched_ret = NoSchedCall
    /\ qret = NoQuery
    /\ run_pc = "idle"
    /\ run_idx = 0
    /\ run_results = <<>>
    /\ run_acct = 0
    /\ run_ret = NoRunStep

SpecStore == StoreInit /\ [][StoreNext]_vars

\* ------------------------------------------------------------------------
\* Ingestion store: the claims
\* ------------------------------------------------------------------------
\* the positions of the committed tweet rows with the tweet_id
RowsOf(tid) == {i \in 1..Len(db.tweets) : db.tweets[i].tweet_id = tid}

\* the step is a save_tweet call of w that starts on a stored tweet_id
ReIngests(w) ==
    /\ spc[w] = "idle"
    /\ <<spc'[w], sreq'[w], sret'[w]>> # <<spc[w], sreq[w], sret[w]>>
    /\ RowsOf(sreq'[w].tweet_id) # {}

\* C8: save_tweet of a record whose tweet_id is stored returns the id of the
\* stored row, the id the call that stored it returned, and changes no table: a
\* tweet_id has one row, and a second save_tweet of a record adds no row and
\* raises no usage_count.
C8_ReIngestIsNoOp ==
    /\ [](\A w \in Workers :
            sret[w].how \in {"saved", "existing"} =>
                RowsOf(sreq[w].tweet_id) = {sret[w].id})
    /\ [][\A w \in Workers :
            ReIngests(w) =>
                /\ spc'[w] = "idle"
                /\ sret'[w].how = "existing"
                /\ RowsOf(sreq'[w].tweet_id) = {sret'[w].id}
                /\ db' = db
                /\ (sreq'[w] = sreq[w] /\ sret[w].how = "saved") =>
                        sret'[w].id = sret[w].id]_vars

\* a record with a hashtag, a mention, a media item and a keyword was stored,
\* and a later save_tweet of it returned by the lookup
C8_Witness ==
    \E w \in Workers :
        /\ sret[w].how = "existing"
        /\ sreq[w].tweet_id = "t1"
        /\ \E i \in 1..Len(db.hashtags) : db.hashtags[i].usage_count = 1
        /\ Len(db.mentions) = 1
        /\ Len(db.media_items) = 1
        /\ Len(db.tweet_keywords) = 1

\* C9: of two concurrent save_tweet calls with the same tweet_id one inserts the
\* row, and the one that meets the unique constraint returns the id of that row.
C9_ConflictReturnsWinner ==
    \A w \in Workers :
        /\ Cardinality(RowsOf(sreq[w].tweet_id)) <= 1
        /\ (sret[w].how = "integrity_error" /\ RowsOf(sreq[w].tweet_id) # {}) =>
                sret[w].id \in RowsOf(sreq[w].tweet_id)

\* the step is a save_tweet call of w that returns None from its except branch
ReturnsFailure(w) ==
    /\ spc[w] # "idle"
    /\ spc'[w] = "idle"
    /\ sret'[w].how \in {"error", "integrity_error"}

\* C10: a save_tweet call that fails after its lookup returns None and leaves
\* every table as it was; and every tweet row's user_id, and every mention
\* row's mentioned_user_id, is the user_id of a user row.
C10_FailureRollsBack ==
    /\ [](/\ \A i \in 1..Len(db.tweets) :
                \E j \in 1..Len(db.users) :
                    db.users[j].user_id = db.tweets[i].user_id
          /\ \A i \in 1..Len(db.mentions) :
                \E j \in 1..Len(db.users) :
                    db.users[j].user_id = db.mentions[i].mentioned_user_id)
    /\ [][\A w \in Workers :
            ReturnsFailure(w) => (sret'[w].id = 0 /\ db' = db)]_vars

\* the keywords of t2 raised after its author update, tweet, hashtags and
\* mentions were flushed: t1 is stored and the author's handle is still the old
\* one
C10_Witness ==
    \E w \in Workers :
        /\ spc[w] = "idle"
        /\ sret[w].how = "error"
        /\ SaveSteps[sret[w].step] = "keywords"
        /\ sreq[w].tweet_id = "t2"
        /\ RowsOf("t1") # {}
        /\ RowsOf("t2") = {}
        /\ \E j \in 1..Len(db.users) :
                db.users[j].user_id = "u1" /\ db.users[j].username = "alice"

\* the usage_count of the hashtag row with the text x, 0 when there is none
UsageCount(d, x) ==
    IF First(d.hashtags, "text", x) # 0
    THEN d.hashtags[First(d.hashtags, "text", x)].usage_count
    ELSE 0

\* the number of elements of the list hashtags that normalize to x
RECURSIVE Occurrences(_, _)
Occurrences(hashtags, x) ==
    IF hashtags = <<>> THEN 0
    ELSE (IF lower_strip(Head(hashtags)) = x THEN 1 ELSE 0)
            + Occurrences(Tail(hashtags), x)

\* the step is the commit of the save_tweet call of w, not one that raised for
\* a cause outside the database
Commits(w) ==
    /\ spc[w] = "commit"
    /\ spc'[w] = "idle"
    /\ sret'[w].how \in {"saved", "integrity_error"}

\* the commit of w meets no unique constraint of a table other than hashtags:
\* its tweet_id, user_ids and keywords are not those another call committed
\* since it read
NoOtherConflict(w) ==
    LET view == Flushed(sbase[w], sreq[w], Len(SaveSteps) - 1)
    IN  ~UniqueViolation(db, sbase[w], [view EXCEPT !.hashtags = sbase[w].hashtags])

\* C32: two save_tweet calls that run concurrently on posts with different
\* tweet_ids sharing a hashtag x both commit, whatever the interleaving: a
\* commit that conflicts with no other call's tweet, user or keyword returns the
\* id, x keeps one row, and the commit raises the usage_count of x by the
\* post's occurrences of x.
C32_NoLostIncrement ==
    [][\A w \in Workers :
        (Commits(w) /\ NoOtherConflict(w)) =>
            /\ sret'[w].how = "saved"
            /\ Cardinality({i \in 1..Len(db'.hashtags) :
                                db'.hashtags[i].text = "news"}) <= 1
            /\ UsageCount(db', "news")
                    = UsageCount(db, "news")
                        + Occurrences(sreq[w].hashtags, "news")]_vars

\* the step is a save_tweet call of w that returns an id
ReturnsId(w) ==
    /\ sret'[w].how \in {"saved", "existing"}
    /\ <<spc'[w], sreq'[w], sret'[w]>> # <<spc[w], sreq[w], sret[w]>>
    /\ spc'[w] = "idle"

\* the committed rows of the user with the user_id
AuthorRows(d, uid) == {j \in 1..Len(d.users) : d.users[j].user_id = uid}

\* C13: when a save_tweet call returns an id for a record whose username is one
\* of the configured tracked accounts, the author's row has is_tracked set and
\* the importance of the configuration.
C13_TrackedAuthorFromConfig ==
    [][\A w \in Workers :
        (ReturnsId(w) /\ sreq'[w].username \in DOMAIN tracked_accounts) =>
            /\ AuthorRows(db', sreq'[w].user_id) # {}
            /\ \A j \in AuthorRows(db', sreq'[w].user_id) :
                /\ db'.users[j].is_tracked
                /\ db'.users[j].importance =
                        tracked_accounts[sreq'[w].username].importance]_vars

\* the author was stored under a handle that is not tracked, with is_tracked
\* unset and importance 0, by a post stored before; the post under the tracked
\* handle was then saved
C13_Witness ==
    \E w \in Workers :
        /\ sret[w].how = "saved"
        /\ sreq[w].tweet_id = "t1"
        /\ sreq[w].username \in DOMAIN tracked_accounts
        /\ RowsOf("t2") # {}
        /\ \A i \in RowsOf("t2") : i < sret[w].id
        /\ \E j \in AuthorRows(db, "u1") :
                db.users[j].is_tracked /\ db.users[j].importance = 8

\* ------------------------------------------------------------------------
\* save_tweets: the batch form, run by one caller with no other session
\* ------------------------------------------------------------------------
\* the longest tweets_data list
MaxBatch == 3

\* the records handed to save_tweets: one per tweet_id
BatchRecords == {r \in Records : r.keywords # <<"kw2">>}

Batches == UNION {[1..k -> BatchRecords] : k \in 0..MaxBatch}

\* the statements made to raise in a batch: none (0), _save_mentions after the
\* user, the tweet and the hashtags were flushed, and the commit
BatchFailures == {0} \cup {n \in 1..Len(SaveSteps) : SaveSteps[n] \in {"mentions", "commit"}}

\* save_tweet, lines 24-98, run from its lookup to its return on the content d.
\* n = 0: no statement raises; otherwise statement SaveSteps[n] raises.
save_tweet(d, tweet_data, n) ==
    LET existing_tweet == ExistingTweet(d, tweet_data)
        view == Flushed(d, tweet_data, Len(SaveSteps) - 1)
    IN  IF existing_tweet # 0
        THEN [db |-> d, ret |-> Returned("existing", existing_tweet, 0)]
        ELSE IF n # 0
        THEN [db |-> rollback(d, d, Flushed(d, tweet_data, n - 1)),
              ret |-> Returned("error", 0, n)]
        ELSE IF UniqueViolation(d, d, view)
        THEN [db |-> rollback(d, d, view),
              ret |-> Returned("integrity_error", 0, Len(SaveSteps))]
        ELSE [db |-> Committed(d, d, view),
              ret |-> Returned("saved",
                               ExistingTweet(Committed(d, d, view), tweet_data), 0)]

\* save_tweets, lines 107-108: the call, with saved_ids = []
SaveTweetsCall(tweets_data) ==
    /\ bpos = Len(batch)
    /\ batch' = tweets_data
    /\ bpos' = 0
    /\ saved_ids' = <<>>
    /\ bres' = <<>>
    /\ UNCHANGED storeVars
    /\ UNCHANGED poolVars
    /\ UNCHANGED scraperVars
    /\ UNCHANGED schedVars
    /\ UNCHANGED queryVars
    /\ UNCHANGED runVars

\* as SaveTweetsIteration, but a record that fails ends the loop
SaveTweetsIterationAborts(n) ==
    /\ bpos < Len(batch)
    /\ LET r == save_tweet(db, batch[bpos + 1], n)
       IN  /\ db' = r.db
           /\ saved_ids' = IF r.ret.id # 0 THEN Append(saved_ids, r.ret.id)
                           ELSE saved_ids
           /\ bres' = Append(bres, r.ret)
           /\ bpos' = IF r.ret.id # 0 THEN bpos + 1 ELSE Len(batch)
    /\ UNCHANGED <<batch, spc, sreq, sbase, sret>>
    /\ UNCHANGED poolVars
    /\ UNCHANGED scraperVars
    /\ UNCHANGED schedVars
    /\ UNCHANGED queryVars
    /\ UNCHANGED runVars

\* save_tweets, lines 108-111: one turn of the loop
SaveTweetsIteration(n) ==
    /\ bpos < Len(batch)
    /\ LET r == save_tweet(db, batch[bpos + 1], n)
       IN  /\ db' = r.db
           /\ saved_ids' = IF r.ret.id # 0 THEN Append(saved_ids, r.ret.id)
                           ELSE saved_ids
           /\ bres' = Append(bres, r.ret)
           /\ bpos' = bpos + 1
    /\ UNCHANGED <<batch, spc, sreq, sbase, sret>>
    /\ UNCHANGED poolVars
    /\ UNCHANGED scraperVars
    /\ UNCHANGED schedVars
    /\ UNCHANGED queryVars
    /\ UNCHANGED runVars

BatchNext ==
    \/ \E tweets_data \in Batches : SaveTweetsCall(tweets_data)
    \/ \E n \in BatchFailures : SaveTweetsIteration(n)

SpecBatch == StoreInit /\ [][BatchNext]_vars

\* the rows of users with the handle h
HandleRows(d, h) == {i \in 1..Len(d.users) : d.users[i].username = h}

\* C30: storing a post that mentions a handle without a users row succeeds: one
\* placeholder row with the normalized handle is made and the post's mention
\* rows for the handle refer to it; a handle that has a row, whether from an
\* earlier post or from an earlier mention of the same post, gets no further
\* row and the mention refers to a row it had.  Stated for the steps of
\* save_tweets in which no statement was made to raise.
C30_MentionPlaceholder ==
    [][(bpos' = bpos + 1 /\ bres'[Len(bres')].step = 0) =>
        LET r == batch[bpos + 1]
            result == bres'[Len(bres')]
            handles == {lower_strip(r.mentions[a]) : a \in DOMAIN r.mentions}
        IN  /\ result.how \in {"saved", "existing"}
            /\ result.how = "saved" =>
                /\ Len(db'.mentions) = Len(db.mentions) + Len(r.mentions)
                /\ \A a \in DOMAIN r.mentions :
                    LET h == lower_strip(r.mentions[a])
                        row == db'.mentions[Len(db.mentions) + a]
                    IN  /\ row.tweet_id = r.tweet_id
                        /\ \E i \in HandleRows(db', h) :
                                db'.users[i].user_id = row.mentioned_user_id
                        /\ (HandleRows(db, h) = {} /\ r.username # h) =>
                                /\ Cardinality(HandleRows(db', h)) = 1
                                /\ row.mentioned_user_id = mention_id(h)
                                /\ \A i \in HandleRows(db', h) :
                                        /\ i > Len(db.users)
                                        /\ db'.users[i].user_id = mention_id(h)
                        /\ HandleRows(db, h) # {} =>
                                /\ (HandleRows(db', h) \ AuthorRows(db', r.user_id))
                                        \subseteq HandleRows(db, h)
                                /\ \E i \in HandleRows(db, h) :
                                        db.users[i].user_id = row.mentioned_user_id
                /\ \A i \in (Len(db.users) + 1)..Len(db'.users) :
                        \/ db'.users[i].user_id = r.user_id
                        \/ /\ db'.users[i].username \in handles
                           /\ HandleRows(db, db'.users[i].username) = {}]_vars

\* C30 witness: t2 made the placeholder of carol, and t3, stored later,
\* mentions carol twice: the three mention rows refer to the one row
C30_Witness ==
    /\ Cardinality(HandleRows(db, "carol")) = 1
    /\ \A i \in HandleRows(db, "carol") : db.users[i].user_id = "mention_carol"
    /\ First(db.tweets, "tweet_id", "t2") # 0
    /\ First(db.tweets, "tweet_id", "t2") < First(db.tweets, "tweet_id", "t3")
    /\ Cardinality({j \in 1..Len(db.mentions) :
                        db.mentions[j].mentioned_user_id = "mention_carol"}) = 3

\* ------------------------------------------------------------------------
\* Reading the store: find_tweet_by_id, find_tweets_by_keyword and
\* get_oldest_tweet_for_keyword, each in a session of its own that reads the
\* committed content
\* ------------------------------------------------------------------------
\* the dict the three functions build from a Tweet row, lines 333-346
tweet_dict(d, i) ==
    [id |-> i, tweet_id |-> d.tweets[i].tweet_id, user_id |-> d.tweets[i].user_id,
     created_at |-> d.tweets[i].created_at]

\* what a read returned: kind is the Python type of the value, "none" for None
QueryReturned(op, args, kind, value) ==
    [op |-> op, args |-> args, kind |-> kind, value |-> value]

\* as find_tweet_by_id, but with .one() in place of .first(): no row raises
find_tweet_by_id_one(d, tweet_id) ==
    LET tweet == First(d.tweets, "tweet_id", tweet_id)
    IN  IF tweet = 0 THEN [kind |-> "raised", value |-> None]
        ELSE [kind |-> "dict", value |-> tweet_dict(d, tweet)]

\* find_tweet_by_id, lines 327-346
find_tweet_by_id(d, tweet_id) ==
    LET tweet == First(d.tweets, "tweet_id", tweet_id)
    IN  IF tweet = 0 THEN [kind |-> "none", value |-> None]
        ELSE [kind |-> "dict", value |-> tweet_dict(d, tweet)]

\* The rows of session.query(Tweet).join(TweetKeyword, ...).filter(
\* TweetKeyword.keyword_id == keyword_obj.id), lines 376-380 and 434-438: one
\* row per tweet_keywords row of the keyword, named here by the position of that
\* row.  TweetOf is the position of the Tweet row it is joined with.
TweetOf(d, j) == First(d.tweets, "tweet_id", d.tweet_keywords[j].tweet_id)

JoinRows(d, keyword) ==
    {j \in 1..Len(d.tweet_keywords) :
        /\ d.tweet_keywords[j].keyword = keyword
        /\ TweetOf(d, j) # 0}

\* "if start_time:" and "if end_time:", lines 383-387: a datetime is always
\* true, so a bound is applied exactly when it is not None
InBounds(created_at, start_time, end_time) ==
    /\ start_time # None => created_at >= start_time[1]
    /\ end_time # None => created_at <= end_time[1]

\* The orders in which the database may hand out the rows J under
\* ORDER BY created_at DESC (descending = TRUE) or ASC: rows of equal created_at
\* come in any order.
RECURSIVE Orderings(_, _, _)
Orderings(d, J, descending) ==
    IF J = {} THEN {<<>>}
    ELSE LET at(j) == d.tweets[TweetOf(d, j)].created_at
             firsts == {j \in J : \A k \in J : IF descending THEN at(j) >= at(k)
                                                ELSE at(j) <= at(k)}
         IN  UNION {{<<j>> \o s : s \in Orderings(d, J \ {j}, descending)} :
                        j \in firsts}

\* LIMIT n
Limit(s, n) == SubSeq(s, 1, IF n < Len(s) THEN n ELSE Len(s))

\* Query.all() on a query for one mapped entity: each Tweet object once, at
\* the place of its first row
RECURSIVE Unique(_, _)
Unique(d, s) ==
    IF s = <<>> THEN <<>>
    ELSE LET rest == Unique(d, SubSeq(s, 1, Len(s) - 1))
             t == TweetOf(d, s[Len(s)])
         IN  IF \E a \in DOMAIN rest : rest[a] = t THEN rest ELSE Append(rest, t)

\* as find_tweets_by_keyword, but oldest first
find_tweets_by_keyword_ascending(d, keyword, start_time, end_time, limit) ==
    IF First(d.keywords, "text", keyword) = 0
    THEN {[kind |-> "list", value |-> <<>>]}
    ELSE LET J == {j \in JoinRows(d, keyword) :
                    InBounds(d.tweets[TweetOf(d, j)].created_at, start_time, end_time)}
         IN  {[kind |-> "list",
               value |-> [a \in DOMAIN Unique(d, Limit(s, limit)) |->
                            tweet_dict(d, Unique(d, Limit(s, limit))[a])]] :
                s \in Orderings(d, J, FALSE)}

\* find_tweets_by_keyword, lines 368-413: the lists the call may return
find_tweets_by_keyword(d, keyword, start_time, end_time, limit) ==
    IF First(d.keywords, "text", keyword) = 0
    THEN {[kind |-> "list", value |-> <<>>]}
    ELSE LET J == {j \in JoinRows(d, keyword) :
                    InBounds(d.tweets[TweetOf(d, j)].created_at, start_time, end_time)}
         IN  {[kind |-> "list",
               value |-> [a \in DOMAIN Unique(d, Limit(s, limit)) |->
                            tweet_dict(d, Unique(d, Limit(s, limit))[a])]] :
                s \in Orderings(d, J, TRUE)}

\* as get_oldest_tweet_for_keyword, but the first row in insertion order
get_oldest_tweet_for_keyword_unordered(d, keyword) ==
    IF First(d.keywords, "text", keyword) = 0 \/ JoinRows(d, keyword) = {}
    THEN {[kind |-> "none", value |-> None]}
    ELSE {[kind |-> "dict",
           value |-> tweet_dict(d, TweetOf(d, CHOOSE j \in JoinRows(d, keyword) :
                                    \A k \in JoinRows(d, keyword) : j <= k))]}

\* get_oldest_tweet_for_keyword, lines 426-459: what the call may return
get_oldest_tweet_for_keyword(d, keyword) ==
    IF First(d.keywords, "text", keyword) = 0
    THEN {[kind |-> "none", value |-> None]}
    ELSE IF JoinRows(d, keyword) = {}
    THEN {[kind |-> "none", value |-> None]}
    ELSE {[kind |-> "dict", value |-> tweet_dict(d, TweetOf(d, s[1]))] :
            s \in Orderings(d, JoinRows(d, keyword), FALSE)}

\* The reads are made by the caller of save_tweets, between two of its calls.
FindTweetById(tweet_id) ==
    /\ bpos = Len(batch)
    /\ LET r == find_tweet_by_id(db, tweet_id)
       IN  qret' = QueryReturned("find_tweet_by_id", <<tweet_id>>, r.kind, r.value)
    /\ UNCHANGED storeVars
    /\ UNCHANGED batchVars
    /\ UNCHANGED poolVars
    /\ UNCHANGED scraperVars
    /\ UNCHANGED schedVars
    /\ UNCHANGED runVars

FindTweetsByKeyword(keyword, start_time, end_time, limit) ==
    /\ bpos = Len(batch)
    /\ \E r \in find_tweets_by_keyword(db, keyword, start_time, end_time, limit) :
            qret' = QueryReturned("find_tweets_by_keyword",
                                  <<keyword, start_time, end_time, limit>>,
                                  r.kind, r.value)
    /\ UNCHANGED storeVars
    /\ UNCHANGED batchVars
    /\ UNCHANGED poolVars
    /\ UNCHANGED scraperVars
    /\ UNCHANGED schedVars
    /\ UNCHANGED runVars

GetOldestTweetForKeyword(keyword) ==
    /\ bpos = Len(batch)
    /\ \E r \in get_oldest_tweet_for_keyword(db, keyword) :
            qret' = QueryReturned("get_oldest_tweet_for_keyword", <<keyword>>,
                                  r.kind, r.value)
    /\ UNCHANGED storeVars
    /\ UNCHANGED batchVars
    /\ UNCHANGED poolVars
    /\ UNCHANGED scraperVars
    /\ UNCHANGED schedVars
    /\ UNCHANGED runVars

\* the records stored before a read: three posts of topic kw1, one of them
\* associated with kw1 twice and the newest one also of topic news
QueryRecords ==
    {RawTweet("t1", "u1", "alice", "Alice", 1, <<>>, <<>>, <<>>, <<"kw1">>),
     RawTweet("t2", "u1", "alice", "Alice", 2, <<>>, <<>>, <<>>, <<"kw1", "kw1">>),
     RawTweet("t3", "u2", "bob", "Bob", 3, <<>>, <<>>, <<>>, <<"kw1", "news">>)}

\* news has a Keyword row from the start, and no post until t3 is stored;
\* kw9 never has a Keyword row
QueryKeywords == {"kw1", "news", "kw9"}
QueryTweetIds == {"t1", "t9"}
QueryTimes == {None, <<2>>}
QueryLimits == {1, 2, 100}

QueryInit ==
    /\ accounts = <<>>
    /\ accounts_file = json_dump(<<>>)
    /\ rate_limits = <<>>
    /\ now = 0
    /\ ret = NoReturn
    /\ api_pool = <<>>
    /\ initialized = FALSE
    /\ init_pc = 0
    /\ wpc = [w \in Workers |-> "idle"]
    /\ wacct = [w \in Workers |-> 0]
    /\ db = [EmptyDb EXCEPT !.keywords = <<[text |-> "news", last_used |-> 0]>>]
    /\ spc = [w \in Workers |-> "idle"]
    /\ sreq = [w \in Workers |-> NoRecord]
    /\ sbase = [w \in Workers |-> EmptyDb]
    /\ sret = [w \in Workers |-> NotCalled]
    /\ batch = <<>>
    /\ bpos = 0
    /\ saved_ids = <<>>
    /\ bres = <<>>
    /\ sched_config = NoConfig
    /\ normal_intervals = <<>>
    /\ critical_intervals = <<>>
    /\ current_status = <<>>
    /\ monitoring_schedules = <<>>
    /\ sched_ret = NoSchedCall
    /\ qret = NoQuery
    /\ run_pc = "idle"
    /\ run_idx = 0
    /\ run_results = <<>>
    /\ run_acct = 0
    /\ run_ret = NoRunStep

QueryNext ==
    \/ \E r \in QueryRecords : SaveTweetsCall(<<r>>)
    \/ \E n \in {0, Len(SaveSteps)} : SaveTweetsIteration(n)
    \/ \E tweet_id \in QueryTweetIds : FindTweetById(tweet_id)
    \/ \E keyword \in QueryKeywords, start_time \in QueryTimes, end_time \in QueryTimes,
          limit \in QueryLimits :
            FindTweetsByKeyword(keyword, start_time, end_time, limit)
    \/ \E keyword \in QueryKeywords : GetOldestTweetForKeyword(keyword)

SpecQuery == QueryInit /\ [][QueryNext]_vars

\* ------------------------------------------------------------------------
\* Reading the store: the claims
\* ------------------------------------------------------------------------
\* the step is a read of the store that returned
IsQuery(op) == qret' # qret /\ qret'.op = op

\* the stored posts that have an association row with the keyword
PostsOfTopic(d, keyword) ==
    {i \in 1..Len(d.tweets) :
        \E j \in 1..Len(d.tweet_keywords) :
            /\ d.tweet_keywords[j].keyword = keyword
            /\ d.tweet_keywords[j].tweet_id = d.tweets[i].tweet_id}

\* C23: for a topic with at least one associated stored post,
\* get_oldest_tweet_for_keyword returns a post associated with the topic whose
\* created_at is the minimum over all posts associated with the topic.
C23_OldestIsMinimum ==
    [][IsQuery("get_oldest_tweet_for_keyword") =>
        LET posts == PostsOfTopic(db, qret'.args[1])
        IN  posts # {} =>
                /\ qret'.kind = "dict"
                /\ qret'.value.id \in posts
                /\ qret'.value = tweet_dict(db, qret'.value.id)
                /\ \A i \in posts : qret'.value.created_at <= db.tweets[i].created_at]_vars

\* C23 witness: t2 and t3 were stored for kw1 before the older t1, and the
\* read returned t1
C23_Witness ==
    /\ qret.op = "get_oldest_tweet_for_keyword"
    /\ qret.args = <<"kw1">>
    /\ qret.kind = "dict"
    /\ qret.value.tweet_id = "t1"
    /\ Len(db.tweets) = 3
    /\ db.tweets[3].tweet_id = "t1"
    /\ qret.value.id = 3

\* C24: find_tweets_by_keyword returns only posts associated with the topic
\* whose created_at lies within the bounds that were given, in non-increasing
\* order of created_at, at most limit of them, and no post left out is newer
\* than a post returned; it returns a post when the limit is positive and there
\* is one to return.
C24_FindByTopic ==
    [][IsQuery("find_tweets_by_keyword") =>
        LET keyword == qret'.args[1]
            start_time == qret'.args[2]
            end_time == qret'.args[3]
            limit == qret'.args[4]
            result == qret'.value
            matching == {i \in PostsOfTopic(db, keyword) :
                            /\ start_time # None =>
                                    db.tweets[i].created_at >= start_time[1]
                            /\ end_time # None =>
                                    db.tweets[i].created_at <= end_time[1]}
        IN  /\ qret'.kind = "list"
            /\ \A a \in DOMAIN result :
                    /\ result[a].id \in matching
                    /\ result[a] = tweet_dict(db, result[a].id)
            /\ \A a, b \in DOMAIN result :
                    a < b => result[a].created_at >= result[b].created_at
            /\ Len(result) <= limit
            /\ \A i \in matching :
                    (\A a \in DOMAIN result : result[a].id # i) =>
                        \A a \in DOMAIN result :
                            result[a].created_at >= db.tweets[i].created_at
            /\ (matching # {} /\ limit > 0) => result # <<>>]_vars

\* C24 witness: with the three posts stored, t1 first, a read of kw1 up to
\* time 2 with limit 1 returned t2: t3 is too new, and the limit left out t1
C24_Witness ==
    /\ qret.op = "find_tweets_by_keyword"
    /\ qret.args = <<"kw1", None, <<2>>, 1>>
    /\ Len(db.tweets) = 3
    /\ db.tweets[1].tweet_id = "t1"
    /\ Len(qret.value) = 1
    /\ qret.value[1].tweet_id = "t2"
    /\ qret.value[1] = tweet_dict(db, qret.value[1].id)

\* C25: a read of absent data returns an empty result: find_tweet_by_id of an
\* unknown id returns None, find_tweets_by_keyword of an unknown topic returns
\* the empty list, and get_oldest_tweet_for_keyword returns None for an unknown
\* topic and for a known topic with no associated post.
C25_AbsentDataIsEmpty ==
    [][/\ IsQuery("find_tweet_by_id") =>
            ((\A i \in 1..Len(db.tweets) : db.tweets[i].tweet_id # qret'.args[1])
                => qret'.kind = "none" /\ qret'.value = None)
       /\ IsQuery("find_tweets_by_keyword") =>
            ((\A i \in 1..Len(db.keywords) : db.keywords[i].text # qret'.args[1])
                => qret'.kind = "list" /\ qret'.value = <<>>)
       /\ IsQuery("get_oldest_tweet_for_keyword") =>
            (PostsOfTopic(db, qret'.args[1]) = {}
                => qret'.kind = "none" /\ qret'.value = None)]_vars

\* C25 witness: with posts stored, the oldest post was asked of news, which
\* has a Keyword row and no post, and the call returned None
C25_Witness ==
    /\ qret.op = "get_oldest_tweet_for_keyword"
    /\ qret.args = <<"news">>
    /\ qret.kind = "none"
    /\ \E i \in 1..Len(db.keywords) : db.keywords[i].text = "news"
    /\ PostsOfTopic(db, "news") = {}
    /\ db.tweets # <<>>

\* ------------------------------------------------------------------------
\* The store while time passes: posts saved again under another keyword
\* ------------------------------------------------------------------------
\* the collector hands save_tweet the post t1 once for kw1 and once for kw2, and
\* the post t2 for kw2
TopicRecords ==
    {RawTweet("t1", "u1", "alice", "Alice", 1, <<>>, <<>>, <<>>, <<"kw1">>),
     RawTweet("t1", "u1", "alice", "Alice", 1, <<>>, <<>>, <<>>, <<"kw2">>),
     RawTweet("t2", "u2", "bob", "Bob", 2, <<>>, <<>>, <<>>, <<"kw2">>)}

TopicsNext ==
    \/ \E w \in Workers, r \in TopicRecords : SaveTweetLookup(w, r)
    \/ \E w \in Workers : SaveTweetWrite(w)
    \/ \E w \in Workers : SaveTweetRaises(w, Len(SaveSteps))
    \/ \E w \in Workers : SaveTweetCommit(w)
    \/ Tick

SpecTopics == StoreInit /\ [][TopicsNext]_vars

\* the keywords the tweet_keywords rows of the post name
KeywordsOf(d, tid) ==
    {d.tweet_keywords[j].keyword :
        j \in {k \in 1..Len(d.tweet_keywords) : d.tweet_keywords[k].tweet_id = tid}}

\* the post is in a list find_tweets_by_keyword may return for the keyword
FoundByKeyword(d, tid, keyword) ==
    \E r \in find_tweets_by_keyword(d, keyword, None, None, 100) :
        \E a \in DOMAIN r.value : r.value[a].tweet_id = tid

\* C37: the keywords of a post are those of the call that stored it.  A
\* save_tweet of a stored tweet_id under another keyword adds no tweet_keywords
\* row, makes no Keyword row and sets no Keyword's last_used; no step changes the
\* keywords of a stored post; and find_tweets_by_keyword returns a post only for
\* the keywords it was stored with.
C37_KeywordsFixedAtFirstSave ==
    /\ [][\A w \in Workers :
            ReIngests(w) =>
                /\ db'.tweet_keywords = db.tweet_keywords
                /\ db'.keywords = db.keywords
                /\ \A k \in {"kw1", "kw2"} \ KeywordsOf(db, sreq'[w].tweet_id) :
                        ~FoundByKeyword(db', sreq'[w].tweet_id, k)]_vars
    /\ [][\A tid \in {"t1", "t2"} :
            RowsOf(tid) # {} => KeywordsOf(db', tid) = KeywordsOf(db, tid)]_vars
    /\ [](\A tid \in {"t1", "t2"}, k \in {"kw1", "kw2"} :
            FoundByKeyword(db, tid, k) => k \in KeywordsOf(db, tid))

\* t1 was stored for kw1; kw2 was made by t2 at an earlier time; a later
\* save_tweet of t1 for kw2 returned the stored row
C37_Witness ==
    \E w \in Workers :
        /\ sret[w].how = "existing"
        /\ sreq[w].tweet_id = "t1"
        /\ sreq[w].keywords = <<"kw2">>
        /\ KeywordsOf(db, "t1") = {"kw1"}
        /\ \E i \in 1..Len(db.keywords) :
                db.keywords[i].text = "kw2" /\ db.keywords[i].last_used < now

\* ------------------------------------------------------------------------
\* save_tweets: the claims
\* ------------------------------------------------------------------------
\* the ids of the records of the batch that did not fail, in order
RECURSIVE IdsOf(_)
IdsOf(results) ==
    IF results = <<>> THEN <<>>
    ELSE IF Head(results).id # 0
         THEN <<Head(results).id>> \o IdsOf(Tail(results))
         ELSE IdsOf(Tail(results))

\* C11: a record of save_tweets that fails neither undoes the records before it
\* nor stops the ones after it.  No step of the loop removes or changes a tweet
\* row; and when save_tweets returns, every record has been processed, every
\* record that did not itself fail is stored under the id in saved_ids, and a
\* record that failed is one whose own statement raised.
C11_BatchPartialSuccess ==
    /\ [](bpos = Len(batch) =>
            /\ Len(bres) = Len(batch)
            /\ saved_ids = IdsOf(bres)
            /\ \A k \in 1..Len(batch) :
                /\ bres[k].how \in {"saved", "existing"} =>
                     RowsOf(batch[k].tweet_id) = {bres[k].id}
                /\ bres[k].how \in {"saved", "existing", "error"}
                /\ bres[k].how = "error" => bres[k].step \in 1..Len(SaveSteps))
    /\ [][/\ Len(db.tweets) <= Len(db'.tweets)
          /\ SubSeq(db'.tweets, 1, Len(db.tweets)) = db.tweets]_vars

\* a batch of three returned: the first record is stored, the second failed after
\* its tweet row was flushed, the third is stored
C11_Witness ==
    /\ Len(batch) = 3
    /\ bpos = 3
    /\ bres[1].how = "saved"
    /\ bres[2].how = "error"
    /\ bres[2].step > 2
    /\ bres[3].how = "saved"
    /\ saved_ids = <<bres[1].id, bres[3].id>>
    /\ RowsOf(batch[2].tweet_id) = {}

\* the stored posts that carry hashtag x: the tweet_ids of its association rows
PostsWith(x) ==
    {db.tweet_hashtags[i].tweet_id :
        i \in {j \in 1..Len(db.tweet_hashtags) : db.tweet_hashtags[j].hashtag = x}}

\* C12: after any sequence of save_tweet calls run one after the other, a
\* hashtag x has one row, and its usage_count is the number of stored posts that
\* contain x.
C12_UsageCountIsPostCount ==
    \A i \in 1..Len(db.hashtags) :
        /\ \A j \in 1..Len(db.hashtags) :
                db.hashtags[j].text = db.hashtags[i].text => j = i
        /\ db.hashtags[i].usage_count = Cardinality(PostsWith(db.hashtags[i].text))

\* the record of the newest stored post of the author uid
LastPostOf(uid) ==
    LET mine == {i \in 1..Len(db.tweets) : db.tweets[i].user_id = uid}
        last == CHOOSE i \in mine : \A k \in mine : k <= i
    IN  CHOOSE r \in Records : r.tweet_id = db.tweets[last].tweet_id

\* C14: after any sequence of save_tweet calls run one after the other, a
\* user_id has at most one user row, and the row of an author with a stored post
\* carries the username and the display name of the record of the author's post
\* that was stored last.
C14_AuthorUpdatedInPlace ==
    \A j \in 1..Len(db.users) :
        /\ AuthorRows(db, db.users[j].user_id) = {j}
        /\ (\E i \in 1..Len(db.tweets) : db.tweets[i].user_id = db.users[j].user_id) =>
                /\ db.users[j].username = LastPostOf(db.users[j].user_id).username
                /\ db.users[j].display_name = LastPostOf(db.users[j].user_id).full_name

\* the author u1 was stored by t1 as alice / Alice, and t2, stored later, renamed
\* the one row
C14_Witness ==
    /\ RowsOf("t1") # {}
    /\ RowsOf("t2") # {}
    /\ \A i \in RowsOf("t1"), k \in RowsOf("t2") : i < k
    /\ Cardinality(AuthorRows(db, "u1")) = 1
    /\ \A j \in AuthorRows(db, "u1") :
            db.users[j].username = "alice_new" /\ db.users[j].display_name = "Alice N."

\* ------------------------------------------------------------------------
\* Initial states
\* ------------------------------------------------------------------------
\* The accounts files the program may be started on: none, an unreadable one,
\* or a list of one or two accounts, each active or not, used before or never.
InitialLists ==
    LET first == {<<Account("acc1", a, lu)>> :
                    a \in BOOLEAN, lu \in {None, isoformat(0)}}
        second == {<<Account("acc2", a, lu)>> :
                    a \in BOOLEAN, lu \in {None, isoformat(0)}}
    IN  {<<>>} \cup first \cup {x \o y : x \in first, y \in second}

InitialFiles == {MissingFile, CorruptFile} \cup {json_dump(l) : l \in InitialLists}

PoolInit ==
    /\ \E f \in InitialFiles :
        /\ accounts = load_accounts(f)
        /\ accounts_file = file_after_load(f)
    /\ rate_limits = <<>>
    /\ now = 0
    /\ ret = NoReturn
    /\ api_pool = <<>>
    /\ initialized = FALSE
    /\ init_pc = 0
    /\ wpc = [w \in Workers |-> "idle"]
    /\ wacct = [w \in Workers |-> 0]
    /\ db = EmptyDb
    /\ spc = [w \in Workers |-> "idle"]
    /\ sreq = [w \in Workers |-> NoRecord]
    /\ sbase = [w \in Workers |-> EmptyDb]
    /\ sret = [w \in Workers |-> NotCalled]
    /\ batch = <<>>
    /\ bpos = 0
    /\ saved_ids = <<>>
    /\ bres = <<>>
    /\ sched_config = NoConfig
    /\ normal_intervals = <<>>
    /\ critical_intervals = <<>>
    /\ current_status = <<>>
    /\ monitoring_schedules = <<>>
    /\ sched_ret = NoSchedCall
    /\ qret = NoQuery
    /\ run_pc = "idle"
    /\ run_idx = 0
    /\ run_results = <<>>
    /\ run_acct = 0
    /\ run_ret = NoRunStep

\* ------------------------------------------------------------------------
\* The fetch client: TwitterScraper
\* ------------------------------------------------------------------------
SearchRemaining == 85
UserTweetsRemaining == 90
RateLimitWindow == 15

ApiPoolSet(pool, u, status) ==
    [x \in DOMAIN pool \cup {u} |-> IF x = u THEN status ELSE pool[x]]

\* initialize, line 36: nothing to do once initialized; line 39 takes the list
InitStart ==
    /\ ~initialized
    /\ init_pc = 0
    /\ init_pc' = 1
    /\ UNCHANGED <<api_pool, initialized, wpc, wacct>>
    /\ UNCHANGED <<accounts, accounts_file, rate_limits, now>>
    /\ ret' = NoReturn
    /\ UNCHANGED storeVars
    /\ UNCHANGED batchVars
    /\ UNCHANGED schedVars
    /\ UNCHANGED queryVars
    /\ UNCHANGED runVars

\* initialize, lines 41-57: one turn of the loop over the accounts.  An inactive
\* account is skipped; adding an active one to twscrape's pool may raise, and
\* the handler then deactivates the account.
InitAddAccount ==
    /\ init_pc \in 1..Len(accounts)
    /\ init_pc' = init_pc + 1
    /\ LET a == accounts[init_pc]
       IN  \/ /\ ~a.active
              /\ UNCHANGED <<api_pool, accounts, accounts_file>>
           \/ /\ a.active
              /\ api_pool' = ApiPoolSet(api_pool, a.username, "added")
              /\ UNCHANGED <<accounts, accounts_file>>
           \/ /\ a.active
              /\ accounts' = SetStatus(accounts, a.username, FALSE)
              /\ accounts_file' = save_accounts(accounts')
              /\ UNCHANGED api_pool
    /\ UNCHANGED <<initialized, wpc, wacct, rate_limits, now>>
    /\ ret' = NoReturn
    /\ UNCHANGED storeVars
    /\ UNCHANGED batchVars
    /\ UNCHANGED schedVars
    /\ UNCHANGED queryVars
    /\ UNCHANGED runVars

\* initialize, lines 60-86: login_all authenticates every added account.  The
\* accounts in rejected fail to log in; twscrape records that in its own pool.
\* listing: whether this twscrape has get_accounts / list_accounts (lines 67-78).
LoginAll(rejected, listing) ==
    /\ init_pc = Len(accounts) + 1
    /\ init_pc' = 0
    /\ api_pool' = [u \in DOMAIN api_pool |->
                        IF u \in rejected THEN "login_failed"
                        ELSE IF api_pool[u] = "added" THEN "logged_in"
                        ELSE api_pool[u]]
    /\ LET valid_accounts == IF listing
                             THEN {u \in DOMAIN api_pool : api_pool'[u] = "logged_in"}
                             ELSE {1}
       IN  initialized' = (valid_accounts # {})
    /\ UNCHANGED <<wpc, wacct>>
    /\ UNCHANGED <<accounts, accounts_file, rate_limits, now>>
    /\ ret' = NoReturn
    /\ UNCHANGED storeVars
    /\ UNCHANGED batchVars
    /\ UNCHANGED schedVars
    /\ UNCHANGED queryVars
    /\ UNCHANGED runVars

\* initialize, lines 85-86: login_all itself raises
LoginAllRaises ==
    /\ init_pc = Len(accounts) + 1
    /\ init_pc' = 0
    /\ UNCHANGED <<api_pool, initialized, wpc, wacct>>
    /\ UNCHANGED <<accounts, accounts_file, rate_limits, now>>
    /\ ret' = NoReturn
    /\ UNCHANGED storeVars
    /\ UNCHANGED batchVars
    /\ UNCHANGED schedVars
    /\ UNCHANGED queryVars
    /\ UNCHANGED runVars

\* as CallFetch, with the stamp of line 137 and the save of line 138 left for
\* after the fetch
CallFetchStampLater(w, method) ==
    /\ initialized
    /\ wpc[w] = "idle"
    /\ LET i == SelectAccount(accounts, rate_limits, now)
       IN  /\ ret' = i
           /\ wpc' = [wpc EXCEPT ![w] = IF i = 0 THEN "idle" ELSE method]
           /\ wacct' = [wacct EXCEPT ![w] = i]
    /\ UNCHANGED <<accounts, accounts_file>>
    /\ UNCHANGED <<api_pool, initialized, init_pc, rate_limits, now>>
    /\ UNCHANGED storeVars
    /\ UNCHANGED batchVars
    /\ UNCHANGED schedVars
    /\ UNCHANGED queryVars
    /\ UNCHANGED runVars

\* search_tweets lines 103-114 and get_user_tweets lines 151-162: up to the first
\* await that can suspend.  get_healthy_account holds no await, so the event
\* loop runs it to its return in one piece.
CallFetch(w, method) ==
    /\ initialized
    /\ wpc[w] = "idle"
    /\ LET i == SelectAccount(accounts, rate_limits, now)
       IN  /\ IF i = 0
              THEN UNCHANGED <<accounts, accounts_file>>
              ELSE /\ accounts' = Stamp(accounts, i, now)
                   /\ accounts_file' = save_accounts(accounts')
           /\ ret' = i
           /\ wpc' = [wpc EXCEPT ![w] = IF i = 0 THEN "idle" ELSE method]
           /\ wacct' = [wacct EXCEPT ![w] = i]
    /\ UNCHANGED <<api_pool, initialized, init_pc, rate_limits, now>>
    /\ UNCHANGED storeVars
    /\ UNCHANGED batchVars
    /\ UNCHANGED schedVars
    /\ UNCHANGED queryVars
    /\ UNCHANGED runVars

\* as FetchReturns, but the quota recorded is 0
FetchReturnsExhausted(w) ==
    /\ wpc[w] # "idle"
    /\ rate_limits' = RateLimitSet(rate_limits, accounts[wacct[w]].username,
                                   0, now + RateLimitWindow)
    /\ wpc' = [wpc EXCEPT ![w] = "idle"]
    /\ wacct' = [wacct EXCEPT ![w] = 0]
    /\ ret' = NoReturn
    /\ UNCHANGED <<api_pool, initialized, init_pc, accounts, accounts_file, now>>
    /\ UNCHANGED storeVars
    /\ UNCHANGED batchVars
    /\ UNCHANGED schedVars
    /\ UNCHANGED queryVars
    /\ UNCHANGED runVars

\* search_tweets lines 123-137, get_user_tweets lines 165-179: the fetch returned
FetchReturns(w) ==
    /\ wpc[w] # "idle"
    /\ rate_limits' = RateLimitSet(rate_limits, accounts[wacct[w]].username,
                                   IF wpc[w] = "search_tweets"
                                   THEN SearchRemaining ELSE UserTweetsRemaining,
                                   now + RateLimitWindow)
    /\ wpc' = [wpc EXCEPT ![w] = "idle"]
    /\ wacct' = [wacct EXCEPT ![w] = 0]
    /\ ret' = NoReturn
    /\ UNCHANGED <<api_pool, initialized, init_pc, accounts, accounts_file, now>>
    /\ UNCHANGED storeVars
    /\ UNCHANGED batchVars
    /\ UNCHANGED schedVars
    /\ UNCHANGED queryVars
    /\ UNCHANGED runVars

\* search_tweets lines 139-141, get_user_tweets lines 180-182: the fetch raised
FetchRaises(w) ==
    /\ wpc[w] # "idle"
    /\ wpc' = [wpc EXCEPT ![w] = "idle"]
    /\ wacct' = [wacct EXCEPT ![w] = 0]
    /\ ret' = NoReturn
    /\ UNCHANGED <<api_pool, initialized, init_pc>>
    /\ UNCHANGED <<accounts, accounts_file, rate_limits, now>>
    /\ UNCHANGED storeVars
    /\ UNCHANGED batchVars
    /\ UNCHANGED schedVars
    /\ UNCHANGED queryVars
    /\ UNCHANGED runVars

\* ------------------------------------------------------------------------
\* The pool driven through its public interface
\* ------------------------------------------------------------------------
PoolNext ==
    \/ get_healthy_account
    \/ \E u \in Usernames, r \in RemainingInputs, d \in ResetAhead :
            update_rate_limit(u, r, now + d)
    \/ \E u \in Usernames \cup {UnknownUser}, a \in BOOLEAN : set_account_status(u, a)
    \/ \E u \in Usernames : add_account(u)
    \/ Restart
    \/ Tick

SpecPool == PoolInit /\ [][PoolNext]_vars

\* ------------------------------------------------------------------------
\* Credential pool: the claims
\* ------------------------------------------------------------------------
\* The accounts at position i that is recorded with no quota left before its reset.
Exhausted(i) ==
    /\ accounts[i].username \in DOMAIN rate_limits
    /\ rate_limits[accounts[i].username].remaining <= 0
    /\ now < rate_limits[accounts[i].username].reset_time

Healthy == {i \in 1..Len(accounts) : accounts[i].active /\ ~Exhausted(i)}

\* C1: get_healthy_account never returns an account whose recorded remaining
\* quota is <= 0 while now is before its reset time.
C1_NeverSelectsExhausted ==
    ret > 0 => ~Exhausted(ret)

\* an account was returned while another active one was passed over as exhausted
C1_Witness ==
    /\ ret > 0
    /\ \E j \in 1..Len(accounts) : accounts[j].active /\ Exhausted(j)

\* C2: with exactly one active, not rate-limited account get_healthy_account
\* returns that account; with none (no active account, or every active account
\* rate-limited) it returns None.
C2_OnlyHealthyOrNone ==
    ret >= 0 =>
        /\ Cardinality(Healthy) = 1 => ret \in Healthy
        /\ Healthy = {} => ret = 0

\* the single healthy account was returned although a second account is active
C2_Witness ==
    /\ ret > 0
    /\ Cardinality(Healthy) = 1
    /\ \E j \in 1..Len(accounts) : j # ret /\ accounts[j].active

\* ten times the score 0.7 * idle minutes + 0.3 * remaining quota of the account
\* at position i, in the state the call reads
C3_Score(i) ==
    7 * (IF accounts[i].last_used = None THEN 1000
         ELSE now - accounts[i].last_used[1])
    + 3 * (IF accounts[i].username \in DOMAIN rate_limits
           THEN rate_limits[accounts[i].username].remaining ELSE 100)

C4_StampedAndPersisted ==
    ret > 0 =>
        /\ accounts[ret].last_used = <<now>>
        /\ accounts_file.kind = "json"
        /\ Len(accounts_file.data) >= ret
        /\ accounts_file.data[ret].username = accounts[ret].username
        /\ accounts_file.data[ret].last_used = <<"str", <<now>>>>

\* an account used at time 0 was returned again later
C4_Witness ==
    /\ ret > 0
    /\ now > 0
    /\ accounts[ret].last_used = <<now>>

\* C7: a pool re-created from the accounts file holds the same accounts, with
\* the same active flags and last_used values, as the pool before the restart;
\* the rate-limit state is gone and every active account is a candidate again.
C7_RestartKeepsAccounts ==
    [][ret' = Restarted =>
            /\ accounts' = accounts
            /\ rate_limits' = <<>>
            /\ AvailableIdx(accounts', rate_limits', now')
                    = {i \in 1..Len(accounts) : accounts[i].active}]_vars

\* a restart of a pool with an inactive account and an account used after time 0
C7_Witness ==
    /\ ret = Restarted
    /\ \E i \in 1..Len(accounts) : ~accounts[i].active /\ accounts[i].username \in Usernames
    /\ \E i \in 1..Len(accounts) :
            accounts[i].last_used # None /\ accounts[i].last_used[1] > 0

\* The account at position i is recorded with no quota left and its reset time
\* has come.
C31_ResetPassed(i) ==
    /\ accounts[i].username \in DOMAIN rate_limits
    /\ rate_limits[accounts[i].username].remaining <= 0
    /\ now >= rate_limits[accounts[i].username].reset_time

\* C31: an active account recorded with remaining <= 0 is a candidate of
\* get_healthy_account again as soon as now >= its reset time, with the record
\* still in place: the call returns an account, one that scores at least as
\* high, and returns that very account when no other account is active. In the
\* first call after a restart every active account is such a candidate.
C31_EligibleAgainAtReset ==
    [][ret' >= 0 =>
            \A i \in 1..Len(accounts) :
                (accounts[i].active /\ (C31_ResetPassed(i) \/ ret = Restarted)) =>
                    /\ ret' > 0
                    /\ C3_Score(i) <= C3_Score(ret')
                    /\ (\A j \in 1..Len(accounts) : accounts[j].active => j = i)
                            => ret' = i]_vars

\* the account returned is still recorded with no quota left, the reset time of
\* that record has come, and the clock has moved since the pool started
C31_Witness ==
    /\ ret > 0
    /\ now > 0
    /\ accounts[ret].username \in DOMAIN rate_limits
    /\ rate_limits[accounts[ret].username].remaining <= 0
    /\ now >= rate_limits[accounts[ret].username].reset_time

\* C35: get_healthy_account changes nothing but the last_used of the account it
\* returns, in memory and in the accounts file: the rate limits, the usernames
\* and active flags, and the last_used of every other account stay, and a call
\* that returns None leaves the accounts and the accounts file as they were.
C35_OnlyStampsSelected ==
    [][ret' >= 0 =>
            /\ rate_limits' = rate_limits
            /\ now' = now
            /\ Len(accounts') = Len(accounts)
            /\ \A j \in 1..Len(accounts) :
                    /\ accounts'[j].username = accounts[j].username
                    /\ accounts'[j].active = accounts[j].active
                    /\ j # ret' => accounts'[j] = accounts[j]
            /\ ret' = 0 => (accounts' = accounts /\ accounts_file' = accounts_file)
            /\ ret' > 0 =>
                    /\ accounts_file.kind = "json"
                    /\ accounts_file'.kind = "json"
                    /\ Len(accounts_file'.data) = Len(accounts_file.data)
                    /\ \A j \in 1..Len(accounts_file.data) :
                            /\ accounts_file'.data[j].username = accounts_file.data[j].username
                            /\ accounts_file'.data[j].active = accounts_file.data[j].active
                            /\ j # ret' => accounts_file'.data[j] = accounts_file.data[j]]_vars

\* an account was returned while the other active account, used at an earlier
\* time, kept its last_used, and a rate limit is recorded
C35_Witness ==
    /\ ret > 0
    /\ DOMAIN rate_limits # {}
    /\ \E j \in 1..Len(accounts) :
            /\ j # ret
            /\ accounts[j].active
            /\ accounts[j].last_used # None
            /\ accounts[j].last_used # isoformat(now)

\* The pool driven by add_account, set_account_status and get_healthy_account
\* alone, while time passes.
AccountsNext ==
    \/ get_healthy_account
    \/ \E u \in Usernames \cup {UnknownUser}, a \in BOOLEAN : set_account_status(u, a)
    \/ \E u \in Usernames : add_account(u)
    \/ Tick

SpecAccounts == PoolInit /\ [][AccountsNext]_vars

\* C40: a pool started on an accounts file of distinct usernames never holds
\* two accounts of one username, in memory or in the file; add_account of a
\* username the pool holds leaves the accounts and the file as they were; and
\* an account add_account appends is active and has no last_used.
C40_UsernamesStayDistinct ==
    /\ [](/\ \A i, j \in 1..Len(accounts) :
                accounts[i].username = accounts[j].username => i = j
          /\ \A i, j \in 1..Len(accounts_file.data) :
                accounts_file.data[i].username = accounts_file.data[j].username
                    => i = j)
    /\ [][Len(accounts') > Len(accounts) =>
            /\ Len(accounts') = Len(accounts) + 1
            /\ SubSeq(accounts', 1, Len(accounts)) = accounts
            /\ accounts'[Len(accounts')].active
            /\ accounts'[Len(accounts')].last_used = None
            /\ accounts_file' = json_dump(accounts')]_vars
    /\ [][(ret' = NoReturn /\ now' = now /\ rate_limits' = rate_limits
                /\ Len(accounts') = Len(accounts)
                /\ \A i \in 1..Len(accounts) : accounts'[i].active = accounts[i].active) =>
            (accounts' = accounts /\ accounts_file' = accounts_file)]_vars

\* the pool was started without an accounts file; acc1 and acc2 were added to
\* the two sample accounts, acc1 has been returned since, and a call made after
\* that returned nothing
C40_Witness ==
    /\ Len(accounts) = 4
    /\ accounts[3].username = "acc1"
    /\ accounts[3].last_used # None
    /\ accounts[4].username = "acc2"
    /\ accounts[4].active
    /\ accounts[4].last_used = None
    /\ ret = NoReturn

\* ------------------------------------------------------------------------
\* The pool started on accounts that were used long before
\* ------------------------------------------------------------------------
\* Accounts files of two active accounts, each never used, used at the start of
\* the clock, or used more than NeverUsedIdle minutes before it.
RotationLists ==
    LET stamps == {None, isoformat(0), isoformat(0 - NeverUsedIdle - 1)}
    IN  {<<Account("acc1", TRUE, x), Account("acc2", TRUE, y)>> :
            x \in stamps, y \in stamps}

RotationInit ==
    /\ \E l \in RotationLists :
        /\ accounts = load_accounts(json_dump(l))
        /\ accounts_file = file_after_load(json_dump(l))
    /\ rate_limits = <<>>
    /\ now = 0
    /\ ret = NoReturn
    /\ api_pool = <<>>
    /\ initialized = FALSE
    /\ init_pc = 0
    /\ wpc = [w \in Workers |-> "idle"]
    /\ wacct = [w \in Workers |-> 0]
    /\ db = EmptyDb
    /\ spc = [w \in Workers |-> "idle"]
    /\ sreq = [w \in Workers |-> NoRecord]
    /\ sbase = [w \in Workers |-> EmptyDb]
    /\ sret = [w \in Workers |-> NotCalled]
    /\ batch = <<>>
    /\ bpos = 0
    /\ saved_ids = <<>>
    /\ bres = <<>>
    /\ sched_config = NoConfig
    /\ normal_intervals = <<>>
    /\ critical_intervals = <<>>
    /\ current_status = <<>>
    /\ monitoring_schedules = <<>>
    /\ sched_ret = NoSchedCall
    /\ qret = NoQuery
    /\ run_pc = "idle"
    /\ run_idx = 0
    /\ run_results = <<>>
    /\ run_acct = 0
    /\ run_ret = NoRunStep

SpecRotation == RotationInit /\ [][PoolNext]_vars

\* the remaining quota the score of the account at position i counts
C33_Remaining(i) ==
    IF accounts[i].username \in DOMAIN rate_limits
    THEN rate_limits[accounts[i].username].remaining ELSE DefaultRemaining

\* every active account is a candidate and all have the same remaining quota
C33_EqualQuota ==
    \A i, j \in 1..Len(accounts) :
        (accounts[i].active /\ accounts[j].active) =>
            /\ ~Exhausted(i)
            /\ C33_Remaining(i) = C33_Remaining(j)

\* the last_used of the account at position i is not later than that of the
\* account at position j, a never used account being before every used one
C33_NotLater(i, j) ==
    \/ accounts[i].last_used = None
    \/ /\ accounts[j].last_used # None
       /\ fromisoformat(accounts[i].last_used) <= fromisoformat(accounts[j].last_used)

\* C33: when every active account is a candidate and all have the same
\* remaining quota, get_healthy_account returns an account whose last_used is
\* the oldest, a never used account first, and the first in pool order among
\* those of the oldest last_used.
C33_LeastRecentlyUsedFirst ==
    [][(ret' > 0 /\ C33_EqualQuota) =>
            \A j \in 1..Len(accounts) :
                accounts[j].active =>
                    /\ C33_NotLater(ret', j)
                    /\ C33_NotLater(j, ret') => ret' <= j]_vars

\* ------------------------------------------------------------------------
\* The pool over unbounded time
\* ------------------------------------------------------------------------
\* Times are kept relative to the present: when a minute passes, now stays and
\* every stored time moves one minute into the past.  A reset time that has come
\* stays at now, line 106 only asks whether now is before it.  The guard caps
\* the idle time of the used accounts.
Aged(accts) ==
    [i \in 1..Len(accts) |->
        IF accts[i].last_used = None THEN accts[i]
        ELSE [accts[i] EXCEPT !.last_used = isoformat(fromisoformat(@) - 1)]]

Elapse ==
    /\ \A i \in 1..Len(accounts) :
            accounts[i].last_used # None =>
                now - fromisoformat(accounts[i].last_used) < MaxTime
    /\ accounts' = Aged(accounts)
    /\ accounts_file' = IF accounts_file.kind = "json"
                        THEN json_dump(Aged(json_load(accounts_file)))
                        ELSE accounts_file
    /\ rate_limits' = [u \in DOMAIN rate_limits |->
                        [rate_limits[u] EXCEPT
                            !.reset_time = IF @ > now THEN @ - 1 ELSE @]]
    /\ ret' = NoReturn
    /\ UNCHANGED now
    /\ UNCHANGED scraperVars
    /\ UNCHANGED storeVars
    /\ UNCHANGED batchVars
    /\ UNCHANGED schedVars
    /\ UNCHANGED queryVars
    /\ UNCHANGED runVars

\* the quotas a caller of update_rate_limit records: none left, or a large one
StarveRemaining == {0, 2500}

StarveNext ==
    \/ get_healthy_account
    \/ \E u \in Usernames, r \in StarveRemaining, d \in ResetAhead :
            update_rate_limit(u, r, now + d)
    \/ Elapse


\* every call of get_healthy_account returns, and the clock runs
SpecStarveFair ==
    /\ PoolInit
    /\ [][StarveNext]_vars
    /\ WF_vars(get_healthy_account)
    /\ WF_vars(Elapse)

\* the account with the username is active and not rate-limited
C34_Candidate(u) ==
    \E i \in 1..Len(accounts) :
        accounts[i].username = u /\ accounts[i].active /\ ~Exhausted(i)

\* get_healthy_account returned the account with the username
C34_Returned(u) ==
    /\ ret > 0
    /\ ret <= Len(accounts)
    /\ accounts[ret].username = u

\* C34: when get_healthy_account is called again and again while time passes,
\* every account that stays active and not rate-limited is returned at some
\* point, whatever quotas are recorded for the other accounts.
C34_NoStarvation ==
    \A u \in Usernames :
        ([]<><<get_healthy_account>>_vars /\ []<><<Elapse>>_vars /\ []C34_Candidate(u))
            => <>C34_Returned(u)

\* ------------------------------------------------------------------------
\* The assembled program: main.py initializes the fetch client, then the
\* collectors' workers fetch through it.
\* ------------------------------------------------------------------------
AssembledNext ==
    \/ InitStart
    \/ InitAddAccount
    \/ \E rejected \in SUBSET {u \in DOMAIN api_pool : api_pool[u] = "added"},
          listing \in BOOLEAN : LoginAll(rejected, listing)
    \/ LoginAllRaises
    \/ \E w \in Workers, m \in {"search_tweets", "get_user_tweets"} : CallFetch(w, m)
    \/ \E w \in Workers : FetchReturns(w)
    \/ \E w \in Workers : FetchRaises(w)
    \/ Tick

SpecAssembled == PoolInit /\ [][AssembledNext]_vars

\* ------------------------------------------------------------------------
\* Fetch client and pool together: the claims
\* ------------------------------------------------------------------------
InFlight == {w \in Workers : wpc[w] # "idle"}

\* C5: selection and stamp are one step for concurrent callers.  A worker that
\* is suspended in its fetch holds an account whose stamp is already in memory
\* and in the accounts file, so that every later caller reads it; and (while the
\* clock is below the never-used idle value) two workers in flight hold the same
\* account only when no active account is still unused.
C5_SelectionAtomic ==
    /\ \A w \in InFlight :
            /\ accounts[wacct[w]].last_used # None
            /\ accounts_file.kind = "json"
            /\ accounts_file.data[wacct[w]].last_used
                    = <<"str", accounts[wacct[w]].last_used>>
    /\ \A w \in InFlight, v \in InFlight :
            (w # v /\ wacct[w] = wacct[v] /\ now < 1000) =>
                ~ \E j \in 1..Len(accounts) :
                        accounts[j].active /\ accounts[j].last_used = None

\* two workers are in flight at once, on different accounts
C5_Witness ==
    /\ InFlight = Workers
    /\ \E w \in Workers, v \in Workers : wacct[w] # wacct[v]

\* C6: when the authentication of an account fails, the account is deactivated
\* in the pool and in the accounts file.
C6_AuthFailureDeactivates ==
    [][\A i \in 1..Len(accounts) :
            LET u == accounts[i].username
            IN  (/\ u \in DOMAIN api_pool'
                 /\ api_pool'[u] = "login_failed"
                 /\ api_pool[u] # "login_failed") =>
                    /\ ~accounts'[i].active
                    /\ accounts_file'.data[i].active = "false"]_vars

\* C36: in the assembled program every quota the fetch client records is
\* positive, so no account is ever passed over as rate-limited, and a call of
\* get_healthy_account returns None only when no account is active.
C36_NeverRateLimited ==
    /\ [](/\ \A u \in DOMAIN rate_limits : rate_limits[u].remaining > 0
          /\ \A i \in 1..Len(accounts) : ~Exhausted(i))
    /\ [][ret' = 0 => \A i \in 1..Len(accounts) : ~accounts[i].active]_vars

\* an account whose quota a search recorded was returned again, to a worker
\* that is now in flight
C36_Witness ==
    /\ ret > 0
    /\ accounts[ret].username \in DOMAIN rate_limits
    /\ rate_limits[accounts[ret].username].remaining = SearchRemaining
    /\ \E w \in Workers : wpc[w] # "idle" /\ wacct[w] = ret

\* ------------------------------------------------------------------------
\* The polling scheduler: DynamicScheduler (monitoring/scheduler.py)
\* ------------------------------------------------------------------------
\* Intervals are whole seconds.  A dict is a function on its keys.
DefaultNormalInterval == 1200
DefaultCriticalInterval == 300
DefaultImportance == 5

dict_get(d, k, default) == IF k \in DOMAIN d THEN d[k] ELSE default

dict_set(d, k, v) == [x \in DOMAIN d \cup {k} |-> IF x = k THEN v ELSE d[x]]

\* config.get('scraping', key, default)
config_get(cfg, key, default) == dict_get(cfg.scraping, key, default)

\* self.default_normal_interval and self.default_critical_interval, lines 26-27
default_normal_interval ==
    config_get(sched_config, "default_interval", DefaultNormalInterval)

default_critical_interval ==
    config_get(sched_config, "critical_interval", DefaultCriticalInterval)

\* The doubles of line 78-79.  0.5 + (1 - importance / 10) * 0.5 is the double
\* nearest to (20 - importance) / 20 for every importance of 0..10 but 6, where
\* it is the double below 0.7; its product with one of these bases (of the bases
\* up to 1300) is then a double below the whole number 7 * base / 10, which int()
\* truncates to one less.  For all other importances and bases up to 1300 int()
\* of the double product is the floor of the exact product.
FloatShortBases ==
    {90, 170, 180, 330, 340, 350, 360, 650, 660, 670, 680, 690, 700, 710, 720,
     730, 1290, 1300}

\* as calculate_interval, with the factor importance / 10 in place of
\* 1 - importance / 10
calculate_interval_inverted(importance, base_interval) ==
    (base_interval * (10 + importance)) \div 20

\* _calculate_interval, lines 78-79
calculate_interval(importance, base_interval) ==
    IF importance = 6 /\ base_interval \in FloatShortBases
    THEN (base_interval * (20 - importance)) \div 20 - 1
    ELSE (base_interval * (20 - importance)) \div 20

\* keyword_info.get("importance", 5), line 36
importance_of(keyword_info) == dict_get(keyword_info, "importance", DefaultImportance)

\* the three dicts of the scheduler
Dicts(n, c, st) == [normal_intervals |-> n, critical_intervals |-> c, current_status |-> st]

\* load_settings, lines 34-43: the loop over config.get_keywords()
RECURSIVE from_config(_, _, _, _)
from_config(keywords, base_normal, base_critical, ds) ==
    IF keywords = <<>> THEN ds
    ELSE LET keyword == Head(keywords).text
             importance == importance_of(Head(keywords))
         IN  from_config(Tail(keywords), base_normal, base_critical,
                Dicts(dict_set(ds.normal_intervals, keyword,
                               calculate_interval(importance, base_normal)),
                      dict_set(ds.critical_intervals, keyword,
                               calculate_interval(importance, base_critical)),
                      dict_set(ds.current_status, keyword, "normal")))

\* as from_database, but a keyword of the configuration keeps what the
\* configuration gave it
RECURSIVE from_database_config_wins(_, _)
from_database_config_wins(schedules, ds) ==
    IF schedules = <<>> THEN ds
    ELSE LET schedule == Head(schedules)
         IN  from_database_config_wins(Tail(schedules),
                IF schedule.keyword \in DOMAIN ds.current_status THEN ds
                ELSE Dicts(dict_set(ds.normal_intervals, schedule.keyword,
                                    schedule.normal_interval),
                           dict_set(ds.critical_intervals, schedule.keyword,
                                    schedule.critical_interval),
                           dict_set(ds.current_status, schedule.keyword,
                                    IF schedule.is_critical THEN "critical"
                                    ELSE "normal")))

\* _load_from_database, lines 58-63: the loop over the schedule rows
RECURSIVE from_database(_, _)
from_database(schedules, ds) ==
    IF schedules = <<>> THEN ds
    ELSE LET schedule == Head(schedules)
         IN  from_database(Tail(schedules),
                Dicts(dict_set(ds.normal_intervals, schedule.keyword,
                               schedule.normal_interval),
                      dict_set(ds.critical_intervals, schedule.keyword,
                               schedule.critical_interval),
                      dict_set(ds.current_status, schedule.keyword,
                               IF schedule.is_critical THEN "critical" ELSE "normal")))

\* __init__ and load_settings, lines 16-46, of a process started on the
\* configuration cfg; query_raises: the query of line 54 raises, which line 64
\* catches
load_settings(cfg, query_raises) ==
    /\ sched_config' = cfg
    /\ LET base_normal == config_get(cfg, "default_interval", DefaultNormalInterval)
           base_critical == config_get(cfg, "critical_interval", DefaultCriticalInterval)
           configured == from_config(cfg.keywords, base_normal, base_critical,
                                     Dicts(<<>>, <<>>, <<>>))
           loaded == IF query_raises THEN configured
                     ELSE from_database(monitoring_schedules, configured)
       IN  /\ normal_intervals' = loaded.normal_intervals
           /\ critical_intervals' = loaded.critical_intervals
           /\ current_status' = loaded.current_status
    /\ sched_ret' = [NoSchedCall EXCEPT
                        !.op = "load_settings",
                        !.logged = IF query_raises THEN {<<"error", "">>} ELSE {}]
    /\ UNCHANGED monitoring_schedules
    /\ UNCHANGED poolVars
    /\ UNCHANGED scraperVars
    /\ UNCHANGED storeVars
    /\ UNCHANGED batchVars
    /\ UNCHANGED queryVars
    /\ UNCHANGED runVars

\* as get_interval, with the two dicts taken for each other
get_interval_swapped(keyword) ==
    IF keyword \notin DOMAIN current_status THEN default_normal_interval
    ELSE IF current_status[keyword] = "critical"
         THEN dict_get(normal_intervals, keyword, default_normal_interval)
         ELSE dict_get(critical_intervals, keyword, default_critical_interval)

\* get_interval, lines 88-94
get_interval(keyword) ==
    IF keyword \notin DOMAIN current_status THEN default_normal_interval
    ELSE IF current_status[keyword] = "critical"
         THEN dict_get(critical_intervals, keyword, default_critical_interval)
         ELSE dict_get(normal_intervals, keyword, default_normal_interval)

\* a call of get_interval
GetInterval(keyword) ==
    /\ sched_ret' = [op |-> "get_interval", keyword |-> keyword,
                     is_critical |-> FALSE, value |-> get_interval(keyword),
                     logged |-> {}]
    /\ UNCHANGED <<sched_config, normal_intervals, critical_intervals,
                   current_status, monitoring_schedules>>
    /\ UNCHANGED poolVars
    /\ UNCHANGED scraperVars
    /\ UNCHANGED storeVars
    /\ UNCHANGED batchVars
    /\ UNCHANGED queryVars
    /\ UNCHANGED runVars

\* _update_db_status, lines 123-156, on the schedule rows; a row names its
\* keyword by the keyword's text.  raises: a statement of the try block raises,
\* and line 153 rolls back.
update_db_status(schedules, keyword, is_critical, raises) ==
    LET keyword_obj == First(db.keywords, "text", keyword)
        schedule == First(schedules, "keyword", keyword)
    IN  IF raises \/ keyword_obj = 0 THEN schedules
        ELSE IF schedule # 0
        THEN [schedules EXCEPT ![schedule].is_critical = is_critical,
                               ![schedule].last_check = isoformat(now)]
        ELSE Append(schedules,
                    [keyword |-> keyword,
                     normal_interval |->
                        dict_get(normal_intervals, keyword, default_normal_interval),
                     critical_interval |->
                        dict_get(critical_intervals, keyword, default_critical_interval),
                     last_check |-> isoformat(now),
                     is_critical |-> is_critical])

\* what _update_db_status logs: the error of line 154 when a statement raised,
\* the warning of line 130 when table keywords has no row of the keyword
update_db_logged(keyword, raises) ==
    IF raises THEN {<<"error", keyword>>}
    ELSE IF First(db.keywords, "text", keyword) = 0 THEN {<<"warning", keyword>>}
    ELSE {}

\* as set_critical_status, without the return of lines 103-104: a keyword the
\* scheduler does not know gets a status
set_critical_status_any_keyword(keyword, is_critical, raises) ==
    /\ sched_ret' = [op |-> "set_critical_status", keyword |-> keyword,
                     is_critical |-> is_critical, value |-> 0,
                     logged |-> update_db_logged(keyword, raises)]
    /\ current_status' =
            dict_set(current_status, keyword,
                     IF is_critical THEN "critical" ELSE "normal")
    /\ monitoring_schedules' =
            update_db_status(monitoring_schedules, keyword, is_critical, raises)
    /\ UNCHANGED <<sched_config, normal_intervals, critical_intervals>>
    /\ UNCHANGED poolVars
    /\ UNCHANGED scraperVars
    /\ UNCHANGED storeVars
    /\ UNCHANGED batchVars
    /\ UNCHANGED queryVars
    /\ UNCHANGED runVars

\* as set_critical_status, but a status is only ever raised
set_critical_status_raise_only(keyword, is_critical, raises) ==
    /\ sched_ret' = [op |-> "set_critical_status", keyword |-> keyword,
                     is_critical |-> is_critical, value |-> 0,
                     logged |-> IF keyword \in DOMAIN current_status
                                THEN update_db_logged(keyword, raises) ELSE {}]
    /\ IF keyword \notin DOMAIN current_status
       THEN UNCHANGED <<current_status, monitoring_schedules>>
       ELSE /\ current_status' =
                    IF is_critical
                    THEN [current_status EXCEPT ![keyword] = "critical"]
                    ELSE current_status
            /\ monitoring_schedules' =
                    update_db_status(monitoring_schedules, keyword, is_critical, raises)
    /\ UNCHANGED <<sched_config, normal_intervals, critical_intervals>>
    /\ UNCHANGED poolVars
    /\ UNCHANGED scraperVars
    /\ UNCHANGED storeVars
    /\ UNCHANGED batchVars
    /\ UNCHANGED queryVars
    /\ UNCHANGED runVars

\* set_critical_status, lines 103-114
set_critical_status(keyword, is_critical, raises) ==
    /\ sched_ret' = [op |-> "set_critical_status", keyword |-> keyword,
                     is_critical |-> is_critical, value |-> 0,
                     logged |-> IF keyword \in DOMAIN current_status
                                THEN update_db_logged(keyword, raises) ELSE {}]
    /\ IF keyword \notin DOMAIN current_status
       THEN UNCHANGED <<current_status, monitoring_schedules>>
       ELSE /\ current_status' =
                    [current_status EXCEPT ![keyword] =
                        IF is_critical THEN "critical" ELSE "normal"]
            /\ monitoring_schedules' =
                    update_db_status(monitoring_schedules, keyword, is_critical, raises)
    /\ UNCHANGED <<sched_config, normal_intervals, critical_intervals>>
    /\ UNCHANGED poolVars
    /\ UNCHANGED scraperVars
    /\ UNCHANGED storeVars
    /\ UNCHANGED batchVars
    /\ UNCHANGED queryVars
    /\ UNCHANGED runVars

\* the schedule rows after _update_db_status(keyword, True) ran for each keyword
\* of the set, in the order of the dict; raising: the keywords whose update
\* raises
RECURSIVE update_all(_, _, _)
update_all(schedules, keywords, raising) ==
    IF keywords = <<>> THEN schedules
    ELSE update_all(update_db_status(schedules, Head(keywords), TRUE,
                                     Head(keywords) \in raising),
                    Tail(keywords), raising)

\* the keys of a dict as the list a for loop goes through
RECURSIVE keys_of(_)
keys_of(ks) ==
    IF ks = {} THEN <<>>
    ELSE LET k == CHOOSE x \in ks : TRUE
         IN  <<k>> \o keys_of(ks \ {k})

\* as manager_tweeted, but only the keywords that have a row in table keywords
\* are set critical
manager_tweeted_stored_only(raising) ==
    /\ sched_ret' = [NoSchedCall EXCEPT
                        !.op = "manager_tweeted",
                        !.logged = UNION {update_db_logged(k, k \in raising) :
                                            k \in DOMAIN current_status}]
    /\ current_status' =
            [k \in DOMAIN current_status |->
                IF First(db.keywords, "text", k) # 0 THEN "critical"
                ELSE current_status[k]]
    /\ monitoring_schedules' =
            update_all(monitoring_schedules, keys_of(DOMAIN current_status), raising)
    /\ UNCHANGED <<sched_config, normal_intervals, critical_intervals>>
    /\ UNCHANGED poolVars
    /\ UNCHANGED scraperVars
    /\ UNCHANGED storeVars
    /\ UNCHANGED batchVars
    /\ UNCHANGED queryVars
    /\ UNCHANGED runVars

\* manager_tweeted, lines 160-161
manager_tweeted(raising) ==
    /\ sched_ret' = [NoSchedCall EXCEPT
                        !.op = "manager_tweeted",
                        !.logged = UNION {update_db_logged(k, k \in raising) :
                                            k \in DOMAIN current_status}]
    /\ current_status' = [k \in DOMAIN current_status |-> "critical"]
    /\ monitoring_schedules' =
            update_all(monitoring_schedules, keys_of(DOMAIN current_status), raising)
    /\ UNCHANGED <<sched_config, normal_intervals, critical_intervals>>
    /\ UNCHANGED poolVars
    /\ UNCHANGED scraperVars
    /\ UNCHANGED storeVars
    /\ UNCHANGED batchVars
    /\ UNCHANGED queryVars
    /\ UNCHANGED runVars

\* the keywords the scheduler is asked about; the last one is in no
\* configuration
SchedKeywords == {"kw1", "kw2", "kw9"}

\* The configurations a process is started on: the scraping section absent (the
\* defaults of lines 26-27), with two equal intervals, or with a critical
\* interval above the normal one; no keyword, one, or two of which the second
\* has no importance.
ScrapingSections ==
    {<<>>,
     [default_interval |-> 90, critical_interval |-> 90],
     [default_interval |-> 300, critical_interval |-> 1200]}

KeywordLists ==
    {<<>>,
     <<[text |-> "kw1", importance |-> 10]>>,
     <<[text |-> "kw1", importance |-> 10], [text |-> "kw2"]>>}

SchedConfigs == {[scraping |-> sc, keywords |-> kl] : sc \in ScrapingSections, kl \in KeywordLists}

\* the rows of table keywords the store has written
StoredKeywords == {<<>>, <<[text |-> "kw1"]>>}

\* A process that has constructed its DynamicScheduler on a database without
\* schedule rows.
SchedInit ==
    /\ accounts = <<>>
    /\ accounts_file = json_dump(<<>>)
    /\ rate_limits = <<>>
    /\ now = 0
    /\ ret = NoReturn
    /\ api_pool = <<>>
    /\ initialized = FALSE
    /\ init_pc = 0
    /\ wpc = [w \in Workers |-> "idle"]
    /\ wacct = [w \in Workers |-> 0]
    /\ \E stored \in StoredKeywords : db = [EmptyDb EXCEPT !.keywords = stored]
    /\ spc = [w \in Workers |-> "idle"]
    /\ sreq = [w \in Workers |-> NoRecord]
    /\ sbase = [w \in Workers |-> EmptyDb]
    /\ sret = [w \in Workers |-> NotCalled]
    /\ batch = <<>>
    /\ bpos = 0
    /\ saved_ids = <<>>
    /\ bres = <<>>
    /\ \E cfg \in SchedConfigs :
        /\ sched_config = cfg
        /\ LET configured ==
                from_config(cfg.keywords,
                            config_get(cfg, "default_interval", DefaultNormalInterval),
                            config_get(cfg, "critical_interval", DefaultCriticalInterval),
                            Dicts(<<>>, <<>>, <<>>))
           IN  /\ normal_intervals = configured.normal_intervals
               /\ critical_intervals = configured.critical_intervals
               /\ current_status = configured.current_status
    /\ monitoring_schedules = <<>>
    /\ sched_ret = [NoSchedCall EXCEPT !.op = "load_settings"]
    /\ qret = NoQuery
    /\ run_pc = "idle"
    /\ run_idx = 0
    /\ run_results = <<>>
    /\ run_acct = 0
    /\ run_ret = NoRunStep

SchedNext ==
    \/ \E cfg \in SchedConfigs, query_raises \in BOOLEAN : load_settings(cfg, query_raises)
    \/ \E keyword \in SchedKeywords, is_critical \in BOOLEAN, raises \in BOOLEAN :
            set_critical_status(keyword, is_critical, raises)
    \/ \E raising \in SUBSET SchedKeywords : manager_tweeted(raising)
    \/ \E keyword \in SchedKeywords : GetInterval(keyword)
    \/ Tick

SpecSched == SchedInit /\ [][SchedNext]_vars

\* ------------------------------------------------------------------------
\* Polling scheduler: the claims
\* ------------------------------------------------------------------------
\* C15: set_critical_status(keyword, True) on a keyword the scheduler knows
\* leaves its status critical, and set_critical_status(keyword, False) leaves it
\* normal, whatever the status was.
C15_StatusFollowsSignal ==
    [][(/\ sched_ret'.op = "set_critical_status"
        /\ sched_ret'.keyword \in DOMAIN current_status) =>
            /\ sched_ret'.keyword \in DOMAIN current_status'
            /\ current_status'[sched_ret'.keyword] =
                    IF sched_ret'.is_critical THEN "critical" ELSE "normal"]_vars

\* a critical keyword was set normal
C15_Witness ==
    /\ sched_ret.op = "set_critical_status"
    /\ sched_ret.keyword = "kw1"
    /\ ~sched_ret.is_critical
    /\ "kw1" \in DOMAIN current_status
    /\ current_status["kw1"] = "normal"
    /\ \E i \in 1..Len(monitoring_schedules) :
            /\ monitoring_schedules[i].keyword = "kw1"
            /\ ~monitoring_schedules[i].is_critical
            /\ fromisoformat(monitoring_schedules[i].last_check) > 0

\* C16: manager_tweeted leaves every keyword the scheduler knows critical, and
\* the keywords it knows are the ones it knew.
C16_ManagerTweetedAllCritical ==
    [][sched_ret'.op = "manager_tweeted" =>
            /\ DOMAIN current_status' = DOMAIN current_status
            /\ \A k \in DOMAIN current_status' : current_status'[k] = "critical"]_vars

\* manager_tweeted ran on two keywords, one of them without a row in table
\* keywords
C16_Witness ==
    /\ sched_ret.op = "manager_tweeted"
    /\ DOMAIN current_status = {"kw1", "kw2"}
    /\ \A k \in DOMAIN current_status : current_status[k] = "critical"
    /\ First(db.keywords, "text", "kw2") = 0

\* C17: get_interval of a keyword the scheduler knows returns the keyword's
\* entry of critical_intervals when its status is critical and its entry of
\* normal_intervals otherwise.
C17_IntervalByStatus ==
    (sched_ret.op = "get_interval" /\ sched_ret.keyword \in DOMAIN current_status) =>
        /\ sched_ret.keyword \in DOMAIN critical_intervals
        /\ sched_ret.keyword \in DOMAIN normal_intervals
        /\ sched_ret.value =
                IF current_status[sched_ret.keyword] = "critical"
                THEN critical_intervals[sched_ret.keyword]
                ELSE normal_intervals[sched_ret.keyword]

\* get_interval returned the critical interval of a critical keyword, which is
\* not its normal interval
C17_Witness ==
    /\ sched_ret.op = "get_interval"
    /\ sched_ret.keyword \in DOMAIN current_status
    /\ current_status[sched_ret.keyword] = "critical"
    /\ sched_ret.value = critical_intervals[sched_ret.keyword]
    /\ sched_ret.value # normal_intervals[sched_ret.keyword]

\* C20: every keyword the scheduler knows has a critical interval that is at most
\* its normal interval.
C20_CriticalNotSlower ==
    \A k \in DOMAIN current_status :
        critical_intervals[k] <= normal_intervals[k]

\* the dicts of a DynamicScheduler constructed now, on the same configuration
\* and with the schedule rows read
AfterRestart ==
    from_database(monitoring_schedules,
                  from_config(sched_config.keywords, default_normal_interval,
                              default_critical_interval, Dicts(<<>>, <<>>, <<>>)))

\* the keywords whose status the last call set and whose database update did not
\* raise
Affected ==
    {k \in DOMAIN current_status :
        /\ \/ sched_ret.op = "manager_tweeted"
           \/ sched_ret.op = "set_critical_status" /\ sched_ret.keyword = k
        /\ <<"error", k>> \notin sched_ret.logged}

\* C21: when set_critical_status or manager_tweeted has returned, each keyword
\* whose status it set has that status in table monitoring_schedules: a
\* DynamicScheduler constructed then reports the status the running one holds.
C21_StatusPersisted ==
    \A k \in Affected :
        /\ k \in DOMAIN AfterRestart.current_status
        /\ AfterRestart.current_status[k] = current_status[k]

\* the schedule rows of the keyword
ScheduleRows(k) ==
    {i \in 1..Len(monitoring_schedules) : monitoring_schedules[i].keyword = k}

\* C22: a DynamicScheduler that has been constructed, and has read the schedule
\* rows, holds for every keyword with a schedule row the row's two intervals and
\* status, and for every keyword of the configuration without a row the status
\* normal and the intervals derived from its importance and the two configured
\* bases.
C22_StartupPersistedWins ==
    (sched_ret.op = "load_settings" /\ sched_ret.logged = {}) =>
        /\ \A i \in 1..Len(monitoring_schedules) :
            LET row == monitoring_schedules[i]
            IN  /\ ScheduleRows(row.keyword) = {i}
                /\ row.keyword \in DOMAIN current_status
                /\ normal_intervals[row.keyword] = row.normal_interval
                /\ critical_intervals[row.keyword] = row.critical_interval
                /\ current_status[row.keyword] =
                        IF row.is_critical THEN "critical" ELSE "normal"
        /\ \A j \in 1..Len(sched_config.keywords) :
            LET keyword_info == sched_config.keywords[j]
            IN  ScheduleRows(keyword_info.text) = {} =>
                    /\ keyword_info.text \in DOMAIN current_status
                    /\ current_status[keyword_info.text] = "normal"
                    /\ normal_intervals[keyword_info.text] =
                            calculate_interval(importance_of(keyword_info),
                                               default_normal_interval)
                    /\ critical_intervals[keyword_info.text] =
                            calculate_interval(importance_of(keyword_info),
                                               default_critical_interval)

\* a process started on a configuration of kw1 and kw2 and on a critical row
\* of kw1 whose intervals are not the ones that configuration derives; kw2 has
\* no row
C22_Witness ==
    /\ sched_ret.op = "load_settings"
    /\ sched_ret.logged = {}
    /\ Len(sched_config.keywords) = 2
    /\ ScheduleRows("kw2") = {}
    /\ \E i \in ScheduleRows("kw1") :
        /\ monitoring_schedules[i].is_critical
        /\ current_status["kw1"] = "critical"
        /\ monitoring_schedules[i].normal_interval #
                calculate_interval(importance_of(sched_config.keywords[1]),
                                   default_normal_interval)
        /\ normal_intervals["kw1"] = monitoring_schedules[i].normal_interval
    /\ current_status["kw2"] = "normal"

\* C39: set_critical_status on a keyword the scheduler does not know changes
\* no status and no interval, writes no schedule row and logs nothing, and
\* get_interval still returns the default normal interval for the keyword; and
\* set_critical_status on any keyword leaves normal_intervals and
\* critical_intervals, and the intervals of the stored schedule rows, as they
\* were.
C39_UnknownTopicIgnored ==
    /\ [][sched_ret'.op = "set_critical_status" =>
            /\ normal_intervals' = normal_intervals
            /\ critical_intervals' = critical_intervals
            /\ Len(monitoring_schedules') >= Len(monitoring_schedules)
            /\ \A i \in 1..Len(monitoring_schedules) :
                    /\ monitoring_schedules'[i].keyword = monitoring_schedules[i].keyword
                    /\ monitoring_schedules'[i].normal_interval
                            = monitoring_schedules[i].normal_interval
                    /\ monitoring_schedules'[i].critical_interval
                            = monitoring_schedules[i].critical_interval
            /\ sched_ret'.keyword \notin DOMAIN current_status =>
                    /\ current_status' = current_status
                    /\ monitoring_schedules' = monitoring_schedules
                    /\ db' = db
                    /\ sched_ret'.logged = {}
                    /\ \A k \in SchedKeywords :
                            k = sched_ret'.keyword =>
                                get_interval(k)' = default_normal_interval']_vars
    /\ [][(/\ sched_ret'.op = "get_interval"
           /\ sched_ret'.keyword \notin DOMAIN current_status) =>
                sched_ret'.value = default_normal_interval]_vars

\* kw1 has a row in table keywords and the scheduler, which knows no keyword,
\* was told that it is critical
C39_Witness ==
    /\ sched_ret.op = "set_critical_status"
    /\ sched_ret.keyword = "kw1"
    /\ sched_ret.is_critical
    /\ "kw1" \notin DOMAIN current_status
    /\ First(db.keywords, "text", "kw1") # 0
    /\ sched_config.scraping # <<>>

\* ------------------------------------------------------------------------
\* The intervals derived from the importance
\* ------------------------------------------------------------------------
Importances == 0..10

\* Configurations of two keywords of any two importances, on the default
\* intervals or on configured ones, odd ones among them.
IntervalConfigs ==
    {[scraping |-> sc,
      keywords |-> <<[text |-> "kw1", importance |-> i1],
                     [text |-> "kw2", importance |-> i2]>>] :
        sc \in {<<>>} \cup {[default_interval |-> b1, critical_interval |-> b2] :
                                b1 \in {90, 1201}, b2 \in {7, 90}},
        i1 \in Importances, i2 \in Importances}

IntervalNext ==
    \E cfg \in IntervalConfigs, query_raises \in BOOLEAN : load_settings(cfg, query_raises)

\* a database without schedule rows and without keywords; each step starts a
\* process on a configuration
SpecInterval == StoreInit /\ [][IntervalNext]_vars

\* the importance the configuration gives the keyword
ConfiguredImportance(k) ==
    LET i == CHOOSE j \in 1..Len(sched_config.keywords) : sched_config.keywords[j].text = k
    IN  importance_of(sched_config.keywords[i])

\* the keywords of a more important keyword are polled at least as often, on
\* both bases, and importance 0 gives the base
IntervalsOrdered ==
    /\ \A k1, k2 \in DOMAIN current_status :
            ConfiguredImportance(k1) > ConfiguredImportance(k2) =>
                /\ normal_intervals[k1] <= normal_intervals[k2]
                /\ critical_intervals[k1] <= critical_intervals[k2]
    /\ \A k \in DOMAIN current_status :
            ConfiguredImportance(k) = 0 =>
                /\ normal_intervals[k] = default_normal_interval
                /\ critical_intervals[k] = default_critical_interval

\* C19 as stated: of two importances of 0..10 the higher derives the interval
\* that is not longer, on the normal and on the critical base; importance 0
\* derives the base and importance 10 half the base.
C19_IntervalByImportance ==
    /\ IntervalsOrdered
    /\ \A k \in DOMAIN current_status :
            ConfiguredImportance(k) = 10 =>
                /\ 2 * normal_intervals[k] = default_normal_interval
                /\ 2 * critical_intervals[k] = default_critical_interval

\* C19 as amended: as C19, with importance 10 deriving half the base rounded
\* down to a whole second.
C19_IntervalByImportanceFloor ==
    /\ IntervalsOrdered
    /\ \A k \in DOMAIN current_status :
            ConfiguredImportance(k) = 10 =>
                /\ normal_intervals[k] = default_normal_interval \div 2
                /\ critical_intervals[k] = default_critical_interval \div 2

\* importances 10 and 6 on the odd bases 1201 and 7, and on the base 90 where
\* the double product falls below 63
C19_Witness ==
    /\ sched_ret.op = "load_settings"
    /\ default_normal_interval = 1201
    /\ default_critical_interval = 7
    /\ DOMAIN current_status = {"kw1", "kw2"}
    /\ ConfiguredImportance("kw1") = 10
    /\ ConfiguredImportance("kw2") = 6
    /\ normal_intervals["kw1"] = 600
    /\ critical_intervals["kw1"] = 3
    /\ normal_intervals["kw2"] = 840
    /\ critical_intervals["kw2"] = 4

\* ------------------------------------------------------------------------
\* The collection cycle: main runs collect_for_all_keywords, which runs
\* collect_for_keyword for every keyword of the configuration in turn, in one
\* task
\* ------------------------------------------------------------------------
\* A twscrape Tweet object as the collector reads it.  rawContent is kept as
\* the list of the words that follow a # in the text.
FetchedTweet(id, uid, username, displayname, date, hashtags, mentionedUsers, text_tags) ==
    [id |-> id, user |-> [id |-> uid, username |-> username, displayname |-> displayname],
     date |-> date, hashtags |-> hashtags, mentionedUsers |-> mentionedUsers,
     media |-> <<>>, rawContent |-> text_tags]

FetchedTweets ==
    <<FetchedTweet("t1", "u1", "alice", "Alice", 1, <<>>, <<>>, <<"kw1">>),
      FetchedTweet("t2", "u2", "bob", "Bob", 2, <<"NEWS">>, <<"Carol">>, <<"NEWS">>)>>

\* what a search may return: nothing, one of the tweets, or both
FetchResults ==
    {<<>>, <<FetchedTweets[1]>>, <<FetchedTweets[2]>>, FetchedTweets}

\* the statements of save_tweet made to raise during a cycle: none, the commit
RunFailures == {0, Len(SaveSteps)}

\* str.lower()
lower(k) == IF k \in {"NEWS", "news"} THEN "news" ELSE k

\* the lists that hold every element of the set S once
RECURSIVE ListsOf(_)
ListsOf(S) ==
    IF S = {} THEN {<<>>}
    ELSE UNION {{<<x>> \o l : l \in ListsOf(S \ {x})} : x \in S}

\* text_utils.extract_keywords, lines 14-24: the hashtags of the text in lower
\* case, through a set, whose order of iteration is not fixed
extract_keywords(text) ==
    ListsOf({lower(text[a]) : a \in DOMAIN text})

\* _convert_tweet_to_dict, lines 143-165
convert_tweet_to_dict(tweet) ==
    RawTweet(tweet.id, tweet.user.id, tweet.user.username, tweet.user.displayname,
             tweet.date, tweet.hashtags, tweet.mentionedUsers, tweet.media, <<>>)

\* collect_for_keyword, lines 62-75: the lists processed_tweets may be
RECURSIVE processed_tweets(_, _)
processed_tweets(keyword, tweets) ==
    IF tweets = <<>> THEN {<<>>}
    ELSE {<<[convert_tweet_to_dict(Head(tweets)) EXCEPT
                !.keywords = <<keyword>> \o additional_keywords]>> \o rest :
            additional_keywords \in extract_keywords(Head(tweets).rawContent),
            rest \in processed_tweets(keyword, Tail(tweets))}

\* save_tweets, lines 107-114, run from its call to its return on the content
\* d; failures[a] is the statement of the a-th save_tweet that raises, 0 for none
RECURSIVE save_tweets(_, _, _)
save_tweets(d, tweets_data, failures) ==
    IF tweets_data = <<>> THEN [db |-> d, saved_ids |-> <<>>]
    ELSE LET r == save_tweet(d, Head(tweets_data), Head(failures))
             rest == save_tweets(r.db, Tail(tweets_data), Tail(failures))
         IN  [db |-> rest.db,
              saved_ids |-> (IF r.ret.id # 0 THEN <<r.ret.id>> ELSE <<>>)
                                \o rest.saved_ids]

\* self.keywords = config.get_keywords(), keyword_collector.py line 27
run_keywords == sched_config.keywords

\* what a step of the cycle did
RunStep(op, keyword, account, fetched, saved) ==
    [op |-> op, keyword |-> keyword, account |-> account, fetched |-> fetched,
     saved |-> saved, time |-> now]

\* collect_for_keyword returned a list of n tweets: collect_for_all_keywords,
\* lines 96-100 and 93, notes n for the keyword, sleeps and takes the next
\* keyword, or returns after the last one (line 102)
TopicReturns(n) ==
    /\ run_results' = dict_set(run_results, run_keywords[run_idx].text, n)
    /\ run_idx' = run_idx + 1
    /\ run_pc' = IF run_idx = Len(run_keywords) THEN "done" ELSE "search"
    /\ run_acct' = 0

\* main line 47, collect_for_all_keywords lines 91-93
RunStart ==
    /\ run_pc = "idle"
    /\ run_results' = <<>>
    /\ run_idx' = 1
    /\ run_pc' = IF run_keywords = <<>> THEN "done" ELSE "search"
    /\ run_acct' = 0
    /\ run_ret' = RunStep("start", "", 0, 0, 0)
    /\ UNCHANGED poolVars
    /\ UNCHANGED scraperVars
    /\ UNCHANGED storeVars
    /\ UNCHANGED batchVars
    /\ UNCHANGED schedVars
    /\ UNCHANGED queryVars

\* collect_for_keyword line 48, search_tweets lines 103-104 and initialize
\* lines 36-39: the scraper is not initialized, the search starts initialize
RunInitialize ==
    /\ run_pc = "search"
    /\ ~initialized
    /\ init_pc = 0
    /\ init_pc' = 1
    /\ run_pc' = "initialize"
    /\ run_ret' = RunStep("initialize", run_keywords[run_idx].text, 0, 0, 0)
    /\ UNCHANGED <<run_idx, run_results, run_acct>>
    /\ UNCHANGED <<api_pool, initialized, wpc, wacct>>
    /\ UNCHANGED poolVars
    /\ UNCHANGED storeVars
    /\ UNCHANGED batchVars
    /\ UNCHANGED schedVars
    /\ UNCHANGED queryVars

\* search_tweets lines 105-107: initialize returned and the scraper is still
\* not initialized; the search returns [] and collect_for_keyword returns []
\* at line 57
RunNotInitialized ==
    /\ run_pc = "initialize"
    /\ init_pc = 0
    /\ ~initialized
    /\ TopicReturns(0)
    /\ run_ret' = RunStep("not_initialized", run_keywords[run_idx].text, 0, 0, 0)
    /\ UNCHANGED poolVars
    /\ UNCHANGED scraperVars
    /\ UNCHANGED storeVars
    /\ UNCHANGED batchVars
    /\ UNCHANGED schedVars
    /\ UNCHANGED queryVars

\* as RunAcquire, but the search goes on to the fetch without an account
RunAcquireFetchesAnyway ==
    /\ \/ run_pc = "search" /\ initialized
       \/ run_pc = "initialize" /\ init_pc = 0 /\ initialized
    /\ LET i == SelectAccount(accounts, rate_limits, now)
           keyword == run_keywords[run_idx].text
       IN  /\ ret' = i
           /\ IF i = 0
              THEN /\ UNCHANGED <<accounts, accounts_file>>
                   /\ run_pc' = "fetching"
                   /\ run_acct' = 0
                   /\ UNCHANGED <<run_idx, run_results>>
                   /\ run_ret' = RunStep("no_account", keyword, 0, 0, 0)
              ELSE /\ accounts' = Stamp(accounts, i, now)
                   /\ accounts_file' = save_accounts(accounts')
                   /\ run_pc' = "fetching"
                   /\ run_acct' = i
                   /\ UNCHANGED <<run_idx, run_results>>
                   /\ run_ret' = RunStep("acquired", keyword, i, 0, 0)
    /\ UNCHANGED <<rate_limits, now>>
    /\ UNCHANGED scraperVars
    /\ UNCHANGED storeVars
    /\ UNCHANGED batchVars
    /\ UNCHANGED schedVars
    /\ UNCHANGED queryVars

\* search_tweets lines 109-123: get_healthy_account.  Without an account the
\* search returns [] at line 114 and collect_for_keyword returns [] at line 57;
\* with one, the search is sent off.
RunAcquire ==
    /\ \/ run_pc = "search" /\ initialized
       \/ run_pc = "initialize" /\ init_pc = 0 /\ initialized
    /\ LET i == SelectAccount(accounts, rate_limits, now)
           keyword == run_keywords[run_idx].text
       IN  /\ ret' = i
           /\ IF i = 0
              THEN /\ UNCHANGED <<accounts, accounts_file>>
                   /\ TopicReturns(0)
                   /\ run_ret' = RunStep("no_account", keyword, 0, 0, 0)
              ELSE /\ accounts' = Stamp(accounts, i, now)
                   /\ accounts_file' = save_accounts(accounts')
                   /\ run_pc' = "fetching"
                   /\ run_acct' = i
                   /\ UNCHANGED <<run_idx, run_results>>
                   /\ run_ret' = RunStep("acquired", keyword, i, 0, 0)
    /\ UNCHANGED <<rate_limits, now>>
    /\ UNCHANGED scraperVars
    /\ UNCHANGED storeVars
    /\ UNCHANGED batchVars
    /\ UNCHANGED schedVars
    /\ UNCHANGED queryVars

\* search_tweets lines 123-137 and collect_for_keyword lines 55-82: the search
\* returned tweets.  The rate limit of the account is noted; an empty list ends
\* the topic at line 57, any other is converted and handed to save_tweets.
RunFetchReturns(tweets, failures) ==
    /\ run_pc = "fetching"
    /\ rate_limits' = RateLimitSet(rate_limits, accounts[run_acct].username,
                                   SearchRemaining, now + RateLimitWindow)
    /\ LET keyword == run_keywords[run_idx].text
       IN  IF tweets = <<>>
           THEN /\ UNCHANGED db
                /\ run_ret' = RunStep("fetched", keyword, run_acct, 0, 0)
           ELSE \E tweets_data \in processed_tweets(keyword, tweets) :
                    LET r == save_tweets(db, tweets_data, failures)
                    IN  /\ db' = r.db
                        /\ run_ret' = RunStep("fetched", keyword, run_acct,
                                              Len(tweets), Len(r.saved_ids))
    /\ TopicReturns(Len(tweets))
    /\ ret' = NoReturn
    /\ UNCHANGED <<accounts, accounts_file, now>>
    /\ UNCHANGED <<spc, sreq, sbase, sret>>
    /\ UNCHANGED scraperVars
    /\ UNCHANGED batchVars
    /\ UNCHANGED schedVars
    /\ UNCHANGED queryVars

\* as RunFetchRaises, but the exception leaves search_tweets: it passes through
\* the collector to main's handler, which exits (main.py lines 56-58)
RunFetchRaisesExits ==
    /\ run_pc = "fetching"
    /\ run_pc' = "exited"
    /\ run_acct' = 0
    /\ UNCHANGED <<run_idx, run_results>>
    /\ run_ret' = RunStep("fetch_raised", run_keywords[run_idx].text, run_acct, 0, 0)
    /\ ret' = NoReturn
    /\ UNCHANGED <<accounts, accounts_file, rate_limits, now>>
    /\ UNCHANGED scraperVars
    /\ UNCHANGED storeVars
    /\ UNCHANGED batchVars
    /\ UNCHANGED schedVars
    /\ UNCHANGED queryVars

\* search_tweets lines 139-141 and collect_for_keyword lines 55-57: the search
\* raised; search_tweets returns [] and so does collect_for_keyword
RunFetchRaises ==
    /\ run_pc = "fetching"
    /\ TopicReturns(0)
    /\ run_ret' = RunStep("fetch_raised", run_keywords[run_idx].text, run_acct, 0, 0)
    /\ ret' = NoReturn
    /\ UNCHANGED <<accounts, accounts_file, rate_limits, now>>
    /\ UNCHANGED scraperVars
    /\ UNCHANGED storeVars
    /\ UNCHANGED batchVars
    /\ UNCHANGED schedVars
    /\ UNCHANGED queryVars

\* the configuration of a cycle: two keywords
RunConfig ==
    [scraping |-> <<>>,
     keywords |-> <<[text |-> "kw1", importance |-> 10], [text |-> "kw2"]>>]

\* The process at main line 43: the database is created, the accounts are
\* loaded, initialize has been tried once (line 34) and the scheduler is
\* constructed (line 41).
RunInit ==
    /\ \E a1 \in BOOLEAN, a2 \in BOOLEAN :
            accounts = <<Account("acc1", a1, None), Account("acc2", a2, None)>>
    /\ accounts_file = json_dump(accounts)
    /\ rate_limits = <<>>
    /\ now = 0
    /\ ret = NoReturn
    /\ initialized \in BOOLEAN
    /\ api_pool = [u \in {accounts[a].username : a \in {b \in DOMAIN accounts :
                                                        accounts[b].active}} |->
                        IF initialized THEN "logged_in" ELSE "login_failed"]
    /\ init_pc = 0
    /\ wpc = [w \in Workers |-> "idle"]
    /\ wacct = [w \in Workers |-> 0]
    /\ db = EmptyDb
    /\ spc = [w \in Workers |-> "idle"]
    /\ sreq = [w \in Workers |-> NoRecord]
    /\ sbase = [w \in Workers |-> EmptyDb]
    /\ sret = [w \in Workers |-> NotCalled]
    /\ batch = <<>>
    /\ bpos = 0
    /\ saved_ids = <<>>
    /\ bres = <<>>
    /\ sched_config = RunConfig
    /\ LET configured ==
            from_config(RunConfig.keywords,
                        config_get(RunConfig, "default_interval", DefaultNormalInterval),
                        config_get(RunConfig, "critical_interval", DefaultCriticalInterval),
                        Dicts(<<>>, <<>>, <<>>))
       IN  /\ normal_intervals = configured.normal_intervals
           /\ critical_intervals = configured.critical_intervals
           /\ current_status = configured.current_status
    /\ monitoring_schedules = <<>>
    /\ sched_ret = [NoSchedCall EXCEPT !.op = "load_settings"]
    /\ qret = NoQuery
    /\ run_pc = "idle"
    /\ run_idx = 0
    /\ run_results = <<>>
    /\ run_acct = 0
    /\ run_ret = NoRunStep

RunNext ==
    \/ RunStart
    \/ RunInitialize
    \/ InitAddAccount
    \/ \E rejected \in SUBSET {u \in DOMAIN api_pool : api_pool[u] = "added"},
          listing \in BOOLEAN : LoginAll(rejected, listing)
    \/ LoginAllRaises
    \/ RunNotInitialized
    \/ RunAcquire
    \/ \E tweets \in FetchResults :
        \E failures \in [1..Len(tweets) -> RunFailures] :
            RunFetchReturns(tweets, failures)
    \/ RunFetchRaises
    \/ Tick

SpecRun == RunInit /\ [][RunNext]_vars

\* the cycle with its own steps taken whenever one can be: a step of the
\* program is not put off forever, while nothing makes the search that was sent
\* off return or raise
RunProgram ==
    \/ RunStart
    \/ RunInitialize
    \/ InitAddAccount
    \/ \E rejected \in SUBSET {u \in DOMAIN api_pool : api_pool[u] = "added"},
          listing \in BOOLEAN : LoginAll(rejected, listing)
    \/ LoginAllRaises
    \/ RunNotInitialized
    \/ RunAcquire

SpecRunFair == RunInit /\ [][RunNext]_vars /\ WF_vars(RunProgram)

\* ------------------------------------------------------------------------
\* The collection cycle: the claims
\* ------------------------------------------------------------------------
\* the tweet_keywords rows that join the post with the keyword
Associations(d, tid, keyword) ==
    {j \in 1..Len(d.tweet_keywords) :
        d.tweet_keywords[j].tweet_id = tid /\ d.tweet_keywords[j].keyword = keyword}

\* C38: after any collections, also of a post whose text has the keyword of the
\* search as a hashtag, a list find_tweets_by_keyword returns holds no post
\* twice, and a post has at most one tweet_keywords row for a keyword.
C38_EachPostOncePerTopic ==
    \A keyword \in {"kw1", "kw2", "news"} :
        /\ \A r \in find_tweets_by_keyword(db, keyword, None, None, 100) :
                \A a, b \in DOMAIN r.value :
                    r.value[a].tweet_id = r.value[b].tweet_id => a = b
        /\ \A tid \in {"t1", "t2"} :
                Cardinality(Associations(db, tid, keyword)) <= 1

\* C26: for each topic the cycle goes isDue, acquire, fetch, store, markChecked;
\* in particular, once the fetched records of a topic are stored the topic's
\* last_check is the time of that step.
C26_CheckedAfterStore ==
    (run_ret.op = "fetched" /\ run_ret.saved > 0) =>
        \E i \in DOMAIN monitoring_schedules :
            /\ monitoring_schedules[i].keyword = run_ret.keyword
            /\ monitoring_schedules[i].last_check = isoformat(run_ret.time)

\* C27: no search is sent off unless get_healthy_account returned an account
\* earlier in the same search_tweets call; when it returns None no search is
\* sent, the database is left as it is, the topic counts 0 and the cycle goes
\* on with the next topic (or returns after the last).
C27_NoFetchWithoutAccount ==
    [][/\ run_pc' = "fetching" => run_acct' # 0
       /\ (run_pc # "fetching" /\ run_pc' = "fetching") =>
            /\ ret' = run_acct'
            /\ accounts[run_acct'].active
            /\ run_ret'.op = "acquired"
       /\ ret' = 0 =>
            /\ run_pc' # "fetching"
            /\ db' = db
            /\ run_ret'.op = "no_account"
            /\ run_idx' = run_idx + 1
            /\ run_pc' = IF run_idx < Len(run_keywords) THEN "search" ELSE "done"
            /\ run_results'[run_keywords[run_idx].text] = 0]_vars

\* C27 witness: no account was healthy for kw1; nothing is stored and the
\* cycle is at the search for kw2
C27_Witness ==
    /\ run_ret.op = "no_account"
    /\ run_ret.keyword = "kw1"
    /\ ret = 0
    /\ run_pc = "search"
    /\ run_idx = 2
    /\ db = EmptyDb

\* C28: a search that raises, or a record whose save fails, does not end the
\* cycle: the process never exits, the step that ends a search moves on to the
\* next topic (or returns after the last), and a topic whose search raised
\* counts 0 and stores nothing.
C28_FailureDoesNotEndCycle ==
    [][/\ run_pc' # "exited"
       /\ (run_pc = "fetching" /\ run_pc' # "fetching") =>
            /\ run_idx' = run_idx + 1
            /\ run_pc' = IF run_idx < Len(run_keywords) THEN "search" ELSE "done"
            /\ run_keywords[run_idx].text \in DOMAIN run_results'
            /\ run_ret'.op = "fetch_raised" =>
                    /\ db' = db
                    /\ run_results'[run_keywords[run_idx].text] = 0]_vars

\* C28 witness: of the two records fetched for kw1 one failed to be saved, the
\* search for kw2 raised, and collect_for_all_keywords returned
C28_Witness ==
    /\ run_pc = "done"
    /\ run_ret.op = "fetch_raised"
    /\ run_ret.keyword = "kw2"
    /\ DOMAIN run_results = {"kw1", "kw2"}
    /\ run_results["kw1"] = 2
    /\ run_results["kw2"] = 0
    /\ Len(db.tweets) = 1

\* C29: a search that never returns does not hold the cycle forever: it is
\* timed out and collect_for_all_keywords eventually returns.
C29_CycleCompletes == <>(run_pc = "done")

====
